---- MODULE Spec2Model ----
(***************************************************************************)
(* Model of the affiliate-account administration dashboard.                *)
(*                                                                         *)
(* The dashboard is a set of React components over a remote data store.    *)
(* Each component is modelled by its state hooks (variables), its derived  *)
(* values (operators, computed as the render computes them) and its event  *)
(* handlers (actions).  Asynchronous handlers are split at their awaits.   *)
(*                                                                         *)
(*   SpecAccounts   AccountManagement (role filter, search and filters)    *)
(*   SpecReports    Reports (sales filtering, aggregates, CSV export)      *)
(*   SpecIncentive  incentive rules store and IncentiveOverview            *)
(*   SpecFiles      FileManagement (loading of the file list)              *)
(*   SpecProfile    Profile password form and useSupabase.changePassword   *)
(*   SpecProfileEdit     Profile editing and useSupabase.updateProfile     *)
(*   SpecFileAdmin       FileManagement (the administrator's controls)     *)
(*   SpecAccountActions  AccountManagement (modal, inline edit, buttons)   *)
(*   SpecAccountStore    useSupabase.addAccount and deleteAccount          *)
(*   SpecSalesStore      useSupabase.addSalesData                          *)
(*   SpecHook            the loading flag of one useSupabase instance      *)
(*   SpecRuleUpdate      useSupabase.updateIncentiveRule, query by query   *)
(*                                                                         *)
(* Conventions: a nullable value is NULL or the value; an optional record  *)
(* is the empty sequence or a one-element sequence; a text that is         *)
(* searched is a sequence of one-character strings; a date is a day        *)
(* number; money is an integer.                                            *)
(***************************************************************************)
EXTENDS Integers, Sequences, FiniteSets, Bags, TLC

VARIABLES
  accounts,         \* prop accounts: Account[]
  currentUser,      \* prop currentUser: <<>> when absent, <<user>> otherwise
  searchTerm,       \* AccountManagement state
  statusFilter,     \* AccountManagement state
  paymentFilter,    \* AccountManagement state
  categoryFilter,   \* AccountManagement state
  salesData,        \* prop salesData: SalesData[]
  selectedAccount,  \* Reports state: 'all' or an account id
  dateFilter,       \* prop dateFilter: [preset, startDate, endDate]
  now,              \* the clock read by new Date(): [day, pastMidnight]
  download,         \* rows of the CSV file emitted by the last step, or <<>>
  rulesTable,       \* data store: table incentive_rules, in insertion order
  tiersTable,       \* data store: table incentive_tiers, in insertion order
  page,             \* the page the user is on: "rules" or "overview"
  isLoading,        \* IncentiveOverview state
  incentiveRules,   \* IncentiveOverview state
  users,            \* IncentiveOverview state
  selectedMonth,    \* IncentiveOverview state
  selectedYear,     \* IncentiveOverview state
  loading,          \* useSupabase state (the hook instance of the component)
  error,            \* useSupabase state (the hook instance of the component)
  filesQuery,       \* the query of fetchFiles: idle, pending, ok or failed
  files,            \* FileManagement state
  fmIsLoading,      \* FileManagement state isLoading
  loadError,        \* FileManagement state
  fmSearchTerm,     \* FileManagement state searchTerm
  fmCategoryFilter, \* FileManagement state categoryFilter
  viewMode,         \* FileManagement state
  showPasswordForm, \* Profile state
  passwordData,     \* Profile state
  isSaving,         \* Profile state
  saveResult,       \* Profile state: <<>> for null, <<result>> otherwise
  clearTimers,      \* Profile: pending timeouts that clear saveResult
  pc,               \* changePassword: the auth call it awaits, or "idle"
  call,             \* changePassword: the arguments of the call
  authCalls,        \* the auth calls issued by the call, with their status
  changePasswordResult, \* what the last changePassword call returned
  storedPassword,   \* auth backend: the password of the account
  isEditing,           \* Profile state
  profileData,         \* Profile state
  storedUser,          \* data store: the row of the user in table users
  profileUpdate,       \* the update sent by updateProfile while it is pending, or <<>>
  filesTable,          \* data store: table files
  filesCreated,        \* data store: the number of file ids given out so far
  fmShowModal,         \* FileManagement state showModal
  editingFile,         \* FileManagement state: <<>> for null, <<file>> otherwise
  fmFormData,          \* FileManagement state formData
  fmIsSaving,          \* FileManagement state isSaving
  fmSaveResult,        \* FileManagement state saveResult: <<>> for null
  autoCloseTimers,     \* FileManagement: pending timeouts that call closeModal, oldest first
  fileRequests,        \* bag of addFile, updateFile and deleteFile calls awaiting their answer
  lastReturn,          \* the call answered by the last step and whether it succeeded, or <<>>
  pinEpisode,          \* history: the pin clicks on a file while its updates are pending
  amShowModal,         \* AccountManagement: showModal
  editingAccount,      \* <<>> or <<the account being edited>>
  showCategoryManagement, \* the Category Management view is shown
  editingField,        \* <<>> or <<[accountId, field]>> of the inline edit
  amFormData,          \* formData of the account modal
  lastCall,            \* <<>> or <<the callback of the parent called by the last step>>
  accountsTable,       \* table accounts of the data store
  accountsCreated,     \* number of ids the data store has given to accounts
  usersTable,          \* table users: id -> [role, managed_accounts]
  addCalls,            \* bag of addAccount calls awaiting an answer
  deleteCalls,         \* bag of deleteAccount calls awaiting their answer
  addReturn,           \* <<>> or <<what the addAccount call that returned in the last step returned>>
  salesTable,          \* table sales_data of the data store
  salesCreated,        \* number of ids the data store has given to sales rows
  ingestCalls,         \* bag of addSalesData calls awaiting their answer
  lastAccepted,        \* <<>> or <<the batch of the last ingest the data store accepted>>
  latestRows,          \* history: for every key the values of the last accepted ingest of the key
  hookRequests,        \* bag of the requests started through the hook instance that have not finished
  loadDataCall,        \* loadData of IncentiveOverview on this instance: idle, pending or done
  ruleCall,            \* <<>> or <<the updateIncentiveRule call that awaits an answer>>
  ruleReturn           \* <<>> or <<what the updateIncentiveRule call that returned in the last step returned>>

amVars == <<searchTerm, statusFilter, paymentFilter, categoryFilter>>
rpVars == <<salesData, selectedAccount, dateFilter, now, download>>

dbRuleVars == <<rulesTable, tiersTable>>
ioVars == <<page, isLoading, incentiveRules, users, selectedMonth,
            selectedYear>>

hookVars == <<loading, error>>
fmVars == <<filesQuery, files, fmIsLoading, loadError, fmSearchTerm,
            fmCategoryFilter, viewMode>>
pfVars == <<showPasswordForm, passwordData, isSaving, saveResult,
            clearTimers>>
authVars == <<pc, call, authCalls, changePasswordResult, storedPassword>>

peVars == <<isEditing, profileData, storedUser, profileUpdate>>

faVars ==
  <<filesTable,
    filesCreated,
    fmShowModal,
    editingFile,
    fmFormData,
    fmIsSaving,
    fmSaveResult,
    autoCloseTimers,
    fileRequests,
    lastReturn,
    pinEpisode>>

acVars ==
  <<amShowModal,
    editingAccount,
    showCategoryManagement,
    editingField,
    amFormData,
    lastCall>>

stVars ==
  <<accountsTable,
    accountsCreated,
    usersTable,
    addCalls,
    deleteCalls,
    addReturn>>

sdVars == <<salesTable, salesCreated, ingestCalls, lastAccepted, latestRows>>

hkVars == <<hookRequests, loadDataCall>>

ruVars == <<ruleCall, ruleReturn>>

vars == <<accounts, currentUser, amVars, rpVars, dbRuleVars, ioVars,
          hookVars, fmVars, pfVars, authVars,
    peVars,
    faVars,
    acVars,
    stVars,
    sdVars,
    hkVars,
    ruVars>>

\* what the handlers of a component leave alone: the other components
outsideAccounts == <<rpVars, dbRuleVars, ioVars, hookVars, fmVars, pfVars,
                     authVars,
    peVars,
    faVars,
    acVars,
    stVars,
    sdVars,
    hkVars,
    ruVars>>
outsideReports == <<amVars, dbRuleVars, ioVars, hookVars, fmVars, pfVars,
                    authVars,
    peVars,
    faVars,
    acVars,
    stVars,
    sdVars,
    hkVars,
    ruVars>>
outsideIncentive == <<currentUser, amVars, selectedAccount, dateFilter,
                      download, hookVars, fmVars, pfVars, authVars,
    peVars,
    faVars,
    acVars,
    stVars,
    sdVars,
    hkVars,
    ruVars>>
outsideFiles == <<accounts, currentUser, amVars, rpVars, dbRuleVars, ioVars,
                  pfVars, authVars,
    peVars,
    faVars,
    acVars,
    stVars,
    sdVars,
    hkVars,
    ruVars>>
outsideProfile == <<accounts, currentUser, amVars, rpVars, dbRuleVars,
                    ioVars, fmVars,
    peVars,
    faVars,
    acVars,
    stVars,
    sdVars,
    hkVars,
    ruVars>>
outsideProfileEdit ==
  <<accounts, amVars, rpVars, dbRuleVars, ioVars, fmVars, showPasswordForm,
    passwordData, authVars,
    faVars,
    acVars,
    stVars,
    sdVars,
    hkVars,
    ruVars>>
outsideFileAdmin ==
  <<accounts, amVars, rpVars, dbRuleVars, ioVars, pfVars, authVars, peVars,
    filesQuery, fmIsLoading, loadError, fmSearchTerm, fmCategoryFilter,
    acVars,
    stVars,
    sdVars,
    hkVars,
    ruVars>>
outsideAccountActions ==
  <<rpVars, dbRuleVars, ioVars, hookVars, fmVars, pfVars, authVars, peVars,
    faVars,
    stVars,
    sdVars,
    hkVars,
    ruVars>>
outsideAccountStore ==
  <<accounts, currentUser, amVars, rpVars, dbRuleVars, ioVars, fmVars,
    pfVars, authVars, peVars, faVars, acVars, sdVars,
    hkVars,
    ruVars>>
outsideSalesStore ==
  <<accounts, currentUser, amVars, rpVars, dbRuleVars, ioVars, fmVars,
    pfVars, authVars, peVars, faVars, acVars, stVars,
    hkVars,
    ruVars>>
outsideHook ==
  <<accounts, currentUser, amVars, rpVars, dbRuleVars, ioVars, fmVars,
    pfVars, authVars, peVars, faVars, acVars, stVars, sdVars,
    ruVars>>
outsideRuleUpdate ==
  <<accounts, currentUser, amVars, rpVars, ioVars, fmVars, pfVars,
    authVars, peVars, faVars, acVars, stVars, sdVars, hkVars>>

----------------------------------------------------------------------------
(* Bounds *)

MaxAccounts == 2
MaxManaged == 2
MaxSales == 3
MaxDay == 2
MaxMoney == 2
MaxTiers == 2
MaxTimers == 1
MaxRequests == 1
MaxPinRequests == 2
MaxBatch == 2
MaxFetches == 1

----------------------------------------------------------------------------
(* Generic helpers *)

NULL == "<null>"

Range(s) == {s[i] : i \in DOMAIN s}

\* Array.prototype.includes
Includes(arr, x) == \E i \in DOMAIN arr : arr[i] = x

\* sequences over S of length at most n
SeqsUpTo(S, n) == UNION {[1..k -> S] : k \in 0..n}

\* sequences over S of length at most n without repeated elements
DistinctSeqsUpTo(S, n) ==
  {s \in SeqsUpTo(S, n) : \A i, j \in DOMAIN s : i # j => s[i] # s[j]}

\* String.prototype.toLowerCase on a text
LowerChar(c) ==
  CASE c = "A" -> "a"
    [] c = "B" -> "b"
    [] OTHER -> c

toLowerCase(t) == [i \in DOMAIN t |-> LowerChar(t[i])]

\* String.prototype.includes on texts: t occurs in s as a contiguous part
TextIncludes(s, t) ==
  \E k \in 0..(Len(s) - Len(t)) : SubSeq(s, k + 1, k + Len(t)) = t

----------------------------------------------------------------------------
(* Data *)

IdNames == <<"acc1", "acc2", "acc3", "acc4">>
AccountIds == {IdNames[i] : i \in 1..MaxAccounts}

Statuses == {"active", "violation", "inactive"}
Payments == {"belum diatur", "utamakan", "dimasukkan", "disetujui", "sah"}
Roles == {"user", "superadmin"}
UserIds == {"u1", "u2"}

\* The account rows of the data store, one per id.
AccountRow(id) ==
  CASE id = "acc1" ->
         [id |-> id, username |-> <<"A", "b">>, email |-> <<"a">>,
          account_code |-> <<"B">>, phone |-> <<"1">>, status |-> "active",
          payment_data |-> "utamakan", category_id |-> "cat1",
          user_id |-> "u1"]
    [] id = "acc2" ->
         [id |-> id, username |-> <<"b", "a">>, email |-> <<"b">>,
          account_code |-> <<"A">>, phone |-> <<"2">>, status |-> "violation",
          payment_data |-> "belum diatur", category_id |-> "",
          user_id |-> "u2"]
    [] id = "acc3" ->
         [id |-> id, username |-> <<"a", "A">>, email |-> <<"a", "b">>,
          account_code |-> <<"b">>, phone |-> <<"1", "2">>,
          status |-> "active", payment_data |-> "belum diatur",
          category_id |-> "cat1", user_id |-> "u1"]
    [] OTHER ->
         [id |-> id, username |-> <<"B">>, email |-> <<"A">>,
          account_code |-> <<"a">>, phone |-> <<"2">>, status |-> "inactive",
          payment_data |-> "sah", category_id |-> "cat2", user_id |-> NULL]

AccountLists ==
  {[i \in DOMAIN s |-> AccountRow(s[i])] :
     s \in DistinctSeqsUpTo(AccountIds, MaxAccounts)}

ManagedLists == DistinctSeqsUpTo(AccountIds, MaxManaged)

UserRecords ==
  [id : UserIds, role : {"user"}, managed_accounts : ManagedLists]
    \cup [id : UserIds, role : {"superadmin"}, managed_accounts : {<<>>}]

CurrentUsers == {<<>>} \cup {<<u>> : u \in {r \in UserRecords : r.id = "u1"}}

NoDate == 0
Days == 1..MaxDay

SearchTerms == {<<>>, <<"a">>, <<"B">>, <<"a", "b">>, <<"2">>}
StatusFilters == {"all"} \cup Statuses
PaymentFilters == {"all", "utamakan", "belum diatur", "sah"}
CategoryFilters == {"all", "cat1", "cat2"}

----------------------------------------------------------------------------
(* AccountManagement *)

\* the role filter keyed on the account's owner instead of managed_accounts
ManagedOnlyByOwner(list, user) ==
  SelectSeq(list, LAMBDA account : account.user_id = user.id)

\* accounts.filter(account => managed_accounts.includes(account.id))
ManagedOnly(list, user) ==
  SelectSeq(list, LAMBDA account :
                    Includes(user.managed_accounts, account.id))

filteredAccountsByRoleOf(list, cu) ==
  IF cu = <<>> THEN <<>>
  ELSE IF cu[1].role = "superadmin" THEN list
  ELSE ManagedOnly(list, cu[1])

filteredAccountsByRole == filteredAccountsByRoleOf(accounts, currentUser)

matchesSearch(account) ==
  \/ TextIncludes(toLowerCase(account.username), toLowerCase(searchTerm))
  \/ TextIncludes(toLowerCase(account.email), toLowerCase(searchTerm))
  \/ TextIncludes(toLowerCase(account.account_code), toLowerCase(searchTerm))
  \/ TextIncludes(account.phone, searchTerm)

matchesStatus(account) ==
  statusFilter = "all" \/ account.status = statusFilter

matchesPayment(account) ==
  paymentFilter = "all" \/ account.payment_data = paymentFilter

matchesCategory(account) ==
  categoryFilter = "all" \/ account.category_id = categoryFilter

filteredAccounts ==
  SelectSeq(filteredAccountsByRole, LAMBDA account :
     /\ matchesSearch(account)
     /\ matchesStatus(account)
     /\ matchesPayment(account)
     /\ matchesCategory(account))

\* Reports has its own copy of the role filter
ReportsFilteredAccountsByRole ==
  IF currentUser = <<>> THEN <<>>
  ELSE IF currentUser[1].role = "superadmin" THEN accounts
  ELSE SelectSeq(accounts, LAMBDA account :
                   Includes(currentUser[1].managed_accounts, account.id))

----------------------------------------------------------------------------
(* Reports *)

\* The sales rows of the data store, one per account and day; the metric
\* values alternate between a row without clicks and revenue and a row
\* with them.
IdIndex(id) == CHOOSE i \in DOMAIN IdNames : IdNames[i] = id

SaleRow(a, d) ==
  IF (IdIndex(a) + d) % 2 = 0
  THEN [account_id |-> a, date |-> d, clicks |-> 0, orders |-> 0,
        gross_commission |-> 5, products_sold |-> 1,
        total_purchases |-> 200, new_buyers |-> 0]
  ELSE [account_id |-> a, date |-> d, clicks |-> 3, orders |-> 1,
        gross_commission |-> 10, products_sold |-> 2,
        total_purchases |-> 100, new_buyers |-> 1]

SaleRows == {SaleRow(a, d) : a \in AccountIds, d \in Days}

SalesLists == SeqsUpTo(SaleRows, MaxSales)

Presets == {"7", "30", "all", "custom"}

\* parseInt(dateFilter.preset); NaN for a preset that is not a number
NaN == -1
parseInt(preset) ==
  CASE preset = "7" -> 7
    [] preset = "30" -> 30
    [] preset = "90" -> 90
    [] preset = "365" -> 365
    [] OTHER -> NaN

\* the role filter on sales rows that lets every row through
filteredSalesDataByUserUnfiltered(data) ==
  IF currentUser = <<>> THEN <<>> ELSE data

filteredSalesDataByUserOf(data) ==
  IF currentUser = <<>> THEN <<>>
  ELSE IF currentUser[1].role = "superadmin" THEN data
  ELSE SelectSeq(data, LAMBDA row :
                   Includes(currentUser[1].managed_accounts, row.account_id))

\* new Date(data.date) >= cutoffDate, cutoffDate being now minus daysAgo days
AtOrAfterCutoff(date, daysAgo) ==
  IF now.pastMidnight
  THEN date > now.day - daysAgo
  ELSE date >= now.day - daysAgo

filteredDataOf(data) ==
  LET byUser == filteredSalesDataByUserOf(data)
      byAccount ==
        IF selectedAccount # "all"
        THEN SelectSeq(byUser, LAMBDA row : row.account_id = selectedAccount)
        ELSE byUser
  IN IF /\ dateFilter.preset = "custom"
        /\ dateFilter.startDate # NoDate
        /\ dateFilter.endDate # NoDate
     THEN SelectSeq(byAccount, LAMBDA row :
            row.date >= dateFilter.startDate /\ row.date <= dateFilter.endDate)
     ELSE IF dateFilter.preset # "all"
     THEN IF parseInt(dateFilter.preset) = NaN
          THEN <<>>       \* every comparison with an invalid date is false
          ELSE SelectSeq(byAccount, LAMBDA row :
                 AtOrAfterCutoff(row.date, parseInt(dateFilter.preset)))
     ELSE byAccount

filteredData == filteredDataOf(salesData)

\* rows.reduce((sum, row) => sum + Field(row), 0)
SumOver(rows, Field(_)) ==
  LET sum[i \in 0..Len(rows)] ==
        IF i = 0 THEN 0 ELSE sum[i - 1] + Field(rows[i])
  IN sum[Len(rows)]

RECURSIVE GCD(_, _)
GCD(a, b) == IF b = 0 THEN a ELSE GCD(b, a % b)

\* the number (num / den) * 100 as a reduced fraction, 0 when den is 0
Percent(num, den) ==
  IF den > 0
  THEN LET g == GCD(num * 100, den) IN <<(num * 100) \div g, den \div g>>
  ELSE <<0, 1>>

reportMetricsOf(rows) ==
  LET totalCommission == SumOver(rows, LAMBDA r : r.gross_commission)
      totalRevenue == SumOver(rows, LAMBDA r : r.total_purchases)
      totalOrders == SumOver(rows, LAMBDA r : r.orders)
      totalClicks == SumOver(rows, LAMBDA r : r.clicks)
      totalProductsSold == SumOver(rows, LAMBDA r : r.products_sold)
      totalNewBuyers == SumOver(rows, LAMBDA r : r.new_buyers)
  IN [totalCommission |-> totalCommission,
      totalRevenue |-> totalRevenue,
      totalOrders |-> totalOrders,
      totalClicks |-> totalClicks,
      totalProductsSold |-> totalProductsSold,
      totalNewBuyers |-> totalNewBuyers,
      avgCommissionRate |-> Percent(totalCommission, totalRevenue),
      conversionRate |-> Percent(totalOrders, totalClicks)]

reportMetrics == reportMetricsOf(filteredData)

RECURSIVE AccumulateInto(_, _)
\* the forEach over filteredData: one entry per account_id, in the order in
\* which the ids first occur (Map insertion order)
AccumulateInto(acc, rows) ==
  IF rows = <<>> THEN acc
  ELSE
    LET data == Head(rows)
        known == \E i \in DOMAIN acc : acc[i].account_id = data.account_id
        acc1 ==
          IF known THEN acc
          ELSE Append(acc,
                 [account_id |-> data.account_id, clicks |-> 0, orders |-> 0,
                  gross_commission |-> 0, products_sold |-> 0,
                  total_purchases |-> 0, new_buyers |-> 0, data_count |-> 0,
                  date_range |-> [start |-> data.date, end |-> data.date]])
        acc2 ==
          [i \in DOMAIN acc1 |->
             IF acc1[i].account_id # data.account_id THEN acc1[i]
             ELSE
               [account_id |-> acc1[i].account_id,
                clicks |-> acc1[i].clicks + data.clicks,
                orders |-> acc1[i].orders + data.orders,
                gross_commission |->
                  acc1[i].gross_commission + data.gross_commission,
                products_sold |-> acc1[i].products_sold + data.products_sold,
                total_purchases |->
                  acc1[i].total_purchases + data.total_purchases,
                new_buyers |-> acc1[i].new_buyers + data.new_buyers,
                data_count |-> acc1[i].data_count + 1,
                date_range |->
                  [start |-> IF data.date < acc1[i].date_range.start
                             THEN data.date ELSE acc1[i].date_range.start,
                   end |-> IF data.date > acc1[i].date_range.end
                           THEN data.date ELSE acc1[i].date_range.end]]]
    IN AccumulateInto(acc2, Tail(rows))

\* insert x after every entry whose commission is at least that of x
RECURSIVE InsertByCommission(_, _)
InsertByCommission(sorted, x) ==
  IF sorted = <<>> THEN <<x>>
  ELSE IF Head(sorted).gross_commission >= x.gross_commission
       THEN <<Head(sorted)>> \o InsertByCommission(Tail(sorted), x)
       ELSE <<x>> \o sorted

RECURSIVE SortByCommissionDesc(_)
\* .sort((a, b) => b.gross_commission - a.gross_commission), a stable sort
SortByCommissionDesc(list) ==
  IF list = <<>> THEN <<>>
  ELSE InsertByCommission(
         SortByCommissionDesc(SubSeq(list, 1, Len(list) - 1)),
         list[Len(list)])

accumulatedDataOf(rows) == SortByCommissionDesc(AccumulateInto(<<>>, rows))

accumulatedData == accumulatedDataOf(filteredData)

\* list.find(acc => acc.id === id): <<>> for undefined
FindAccount(list, id) ==
  IF \E i \in DOMAIN list : list[i].id = id
  THEN <<list[CHOOSE i \in DOMAIN list :
                 /\ list[i].id = id
                 /\ \A j \in DOMAIN list : list[j].id = id => i <= j]>>
  ELSE <<>>

\* Number.prototype.toFixed(2) of a fraction: the number of hundredths,
\* rounded to the nearest
toFixed2(frac) == (2 * 100 * frac[1] + frac[2]) \div (2 * frac[2])

\* Intl.NumberFormat currency with maximumFractionDigits 0, on whole amounts
formatCurrency(amount) == <<"Rp", amount>>

\* the text of a date range, a single date when start and end coincide
PeriodText(range) ==
  IF range.start = range.end THEN <<range.start>>
  ELSE <<range.start, "-", range.end>>

UnknownText == <<"U", "n", "k", "n", "o", "w", "n">>

\* a cell of the on-screen accumulated table row
TableRowOf(data) ==
  LET account == FindAccount(ReportsFilteredAccountsByRole, data.account_id)
      convRate == IF data.clicks > 0
                  THEN Percent(data.orders, data.clicks) ELSE <<0, 1>>
      commissionRate == IF data.total_purchases > 0
                        THEN Percent(data.gross_commission,
                                     data.total_purchases)
                        ELSE <<0, 1>>
  IN [username |-> IF account = <<>> THEN NULL ELSE account[1].username,
      account_code |-> IF account = <<>> THEN NULL
                       ELSE account[1].account_code,
      period |-> PeriodText(data.date_range),
      data_count |-> data.data_count,
      clicks |-> data.clicks,
      orders |-> data.orders,
      gross_commission |-> formatCurrency(data.gross_commission),
      total_purchases |-> formatCurrency(data.total_purchases),
      commission_rate |-> toFixed2(commissionRate),
      products_sold |-> data.products_sold,
      conv_rate |-> toFixed2(convRate)]

accumulatedTable == [i \in DOMAIN accumulatedData |->
                       TableRowOf(accumulatedData[i])]

headers ==
  <<"Account", "Account Code", "Period", "Data Days", "Total Clicks",
    "Total Orders", "Total Commission (IDR)", "Total Revenue (IDR)",
    "Commission %", "Products Sold", "Conversion Rate %">>

\* a CSV row that swaps the order and click totals
csvRowSwapped(data) ==
  LET account == FindAccount(ReportsFilteredAccountsByRole, data.account_id)
  IN <<IF account = <<>> \/ account[1].username = <<>>
       THEN UnknownText ELSE account[1].username,
       IF account = <<>> \/ account[1].account_code = <<>>
       THEN UnknownText ELSE account[1].account_code,
       PeriodText(data.date_range),
       data.data_count,
       data.orders,
       data.clicks,
       data.gross_commission,
       data.total_purchases,
       toFixed2(Percent(data.gross_commission, data.total_purchases)),
       data.products_sold,
       toFixed2(Percent(data.orders, data.clicks))>>

\* one element of csvData
csvRow(data) ==
  LET account == FindAccount(ReportsFilteredAccountsByRole, data.account_id)
      convRate == IF data.clicks > 0
                  THEN Percent(data.orders, data.clicks) ELSE <<0, 1>>
      commissionRate == IF data.total_purchases > 0
                        THEN Percent(data.gross_commission,
                                     data.total_purchases)
                        ELSE <<0, 1>>
  IN <<IF account = <<>> \/ account[1].username = <<>>
       THEN UnknownText ELSE account[1].username,
       IF account = <<>> \/ account[1].account_code = <<>>
       THEN UnknownText ELSE account[1].account_code,
       PeriodText(data.date_range),
       data.data_count,
       data.clicks,
       data.orders,
       data.gross_commission,
       data.total_purchases,
       toFixed2(commissionRate),
       data.products_sold,
       toFixed2(convRate)>>

\* [headers, ...csvData], the rows that exportToCSV joins into the file
csvRowsOf(accumulated) ==
  <<headers>> \o [i \in DOMAIN accumulated |-> csvRow(accumulated[i])]

(* Reports handlers *)

handleAccountSelect ==
  /\ \E accountId \in {"all"} \cup
        {ReportsFilteredAccountsByRole[i].id :
           i \in DOMAIN ReportsFilteredAccountsByRole} :
       selectedAccount' = accountId
  /\ download' = <<>>
  /\ UNCHANGED <<accounts, currentUser, salesData, dateFilter, now, outsideReports>>

handleDateFilterChange ==
  /\ \E field \in {"preset", "startDate", "endDate"} :
       \E value \in (IF field = "preset" THEN Presets
                     ELSE {NoDate} \cup Days) :
         /\ field # "preset" => dateFilter.preset = "custom"
         /\ LET newFilter == [dateFilter EXCEPT ![field] = value]
            IN dateFilter' =
                 IF field = "preset" /\ value # "custom"
                 THEN [newFilter EXCEPT !.startDate = NoDate,
                                        !.endDate = NoDate]
                 ELSE newFilter
  /\ download' = <<>>
  /\ UNCHANGED <<accounts, currentUser, salesData, selectedAccount, now,
                 outsideReports>>

exportToCSV ==
  /\ download' = csvRowsOf(accumulatedData)
  /\ UNCHANGED <<accounts, currentUser, salesData, selectedAccount,
                 dateFilter, now, outsideReports>>

----------------------------------------------------------------------------
(* Incentive rules store (useSupabase) *)

Money == {i * 100 : i \in 0..MaxMoney}
Rates == {5, 10}
RuleIds == {"r1"}

TierInputs == [revenue_threshold : Money \ {0}, incentive_rate : Rates]
TierLists == SeqsUpTo(TierInputs, MaxTiers)

\* the fields of a rule that the incentive computation reads
RuleInputs ==
  [base_revenue_threshold : Money, min_commission_threshold : {0, 10},
   is_active : BOOLEAN, tiers : TierLists]

RuleRowOf(id, rule) ==
  [id |-> id,
   base_revenue_threshold |-> rule.base_revenue_threshold,
   min_commission_threshold |-> rule.min_commission_threshold,
   is_active |-> rule.is_active]

\* tiersToInsert
TierRowsOf(id, tiers) ==
  [i \in DOMAIN tiers |->
     [rule_id |-> id, revenue_threshold |-> tiers[i].revenue_threshold,
      incentive_rate |-> tiers[i].incentive_rate]]

TiersOfRule(table, id) == SelectSeq(table, LAMBDA t : t.rule_id = id)

\* The outcomes of the data store calls of addIncentiveRule: the rule insert
\* fails, the rule insert succeeds and the tier insert fails, or both succeed.
addIncentiveRule ==
  /\ page = "rules"
  /\ \E rule \in RuleInputs :
     \E id \in RuleIds \ {rulesTable[i].id : i \in DOMAIN rulesTable} :
     \E outcome \in {"ruleError", "tiersError", "ok"} :
       /\ outcome = "tiersError" => Len(rule.tiers) > 0
       /\ rulesTable' = IF outcome = "ruleError" THEN rulesTable
                        ELSE Append(rulesTable, RuleRowOf(id, rule))
       /\ tiersTable' = IF outcome = "ok" /\ Len(rule.tiers) > 0
                        THEN tiersTable \o TierRowsOf(id, rule.tiers)
                        ELSE tiersTable
  /\ UNCHANGED <<accounts, salesData, now, ioVars, outsideIncentive>>

\* The outcomes of the data store calls of updateIncentiveRule: the rule
\* update fails; or it succeeds and, when tiers are provided, the delete of
\* the old tiers (whose result is not looked at) succeeds or fails and the
\* insert of the new tiers succeeds or fails.
updateIncentiveRule ==
  /\ page = "rules"
  /\ \E k \in DOMAIN rulesTable :
     \E updates \in RuleInputs :
     \E withTiers \in BOOLEAN :
     \E outcome \in {"ruleError", "deleteFailed", "tiersError", "ok"} :
       LET id == rulesTable[k].id
           old == TiersOfRule(tiersTable, id)
           deleted == withTiers /\ outcome # "deleteFailed"
           inserted == withTiers /\ Len(updates.tiers) > 0
                         /\ outcome # "tiersError"
           kept == IF deleted
                   THEN SelectSeq(tiersTable, LAMBDA t : t.rule_id # id)
                   ELSE tiersTable
       IN /\ outcome = "deleteFailed" =>
               withTiers /\ Len(old) > 0
                 /\ Len(old) + Len(updates.tiers) <= MaxTiers
          /\ outcome = "tiersError" => withTiers /\ Len(updates.tiers) > 0
          /\ rulesTable' = IF outcome = "ruleError" THEN rulesTable
                           ELSE [rulesTable EXCEPT ![k] = RuleRowOf(id, updates)]
          /\ tiersTable' = IF outcome = "ruleError" THEN tiersTable
                           ELSE IF inserted
                           THEN kept \o TierRowsOf(id, updates.tiers)
                           ELSE kept
  /\ UNCHANGED <<accounts, salesData, now, ioVars, outsideIncentive>>

Reverse(list) == [i \in DOMAIN list |-> list[Len(list) + 1 - i]]

\* the orders in which .order('revenue_threshold') can return the rows:
\* ascending thresholds, rows with equal thresholds in any order
OrderedByThreshold(table) ==
  {[i \in DOMAIN table |-> table[f[i]]] :
     f \in {g \in Permutations(DOMAIN table) :
              \A i, j \in DOMAIN table :
                i < j => table[g[i]].revenue_threshold
                           <= table[g[j]].revenue_threshold}}

\* the rules that fetchIncentiveRules builds from the two query results
CombineRules(rulesData, tiersData) ==
  [i \in DOMAIN rulesData |->
     [id |-> rulesData[i].id,
      base_revenue_threshold |-> rulesData[i].base_revenue_threshold,
      min_commission_threshold |-> rulesData[i].min_commission_threshold,
      is_active |-> rulesData[i].is_active,
      tiers |->
        LET own == TiersOfRule(tiersData, rulesData[i].id)
        IN [j \in DOMAIN own |->
              [revenue_threshold |-> own[j].revenue_threshold,
               incentive_rate |-> own[j].incentive_rate]]]]

\* the values fetchIncentiveRules can return: [] when a query fails
fetchIncentiveRulesResults ==
  {<<>>} \cup {CombineRules(Reverse(rulesTable), tiersData) :
                 tiersData \in OrderedByThreshold(tiersTable)}

----------------------------------------------------------------------------
(* IncentiveOverview *)

\* The calendar of the model: day 1 is 31 January 2024, the later days are
\* the days of February 2024.
getMonth(day) == IF day <= 1 THEN 0 ELSE 1
getFullYear(day) == 2023 + 1

UserList == <<[id |-> "u1", name |-> "U1"], [id |-> "u2", name |-> "U2"]>>

\* incentiveRules.find(rule => rule.is_active) || null
activeRule ==
  IF \E i \in DOMAIN incentiveRules : incentiveRules[i].is_active
  THEN <<incentiveRules[CHOOSE i \in DOMAIN incentiveRules :
            /\ incentiveRules[i].is_active
            /\ \A j \in DOMAIN incentiveRules :
                 incentiveRules[j].is_active => i <= j]>>
  ELSE <<>>

RECURSIVE InsertByThreshold(_, _)
InsertByThreshold(sorted, x) ==
  IF sorted = <<>> THEN <<x>>
  ELSE IF Head(sorted).revenue_threshold <= x.revenue_threshold
       THEN <<Head(sorted)>> \o InsertByThreshold(Tail(sorted), x)
       ELSE <<x>> \o sorted

RECURSIVE SortByThreshold(_)
\* [...tiers].sort((a, b) => a.revenue_threshold - b.revenue_threshold)
SortByThreshold(tiers) ==
  IF tiers = <<>> THEN <<>>
  ELSE InsertByThreshold(SortByThreshold(SubSeq(tiers, 1, Len(tiers) - 1)),
                         tiers[Len(tiers)])

TypeError == [throws |-> TRUE, value |-> 0]
Returns(v) == [throws |-> FALSE, value |-> v]

\* the for loop: the last tier of the leading run of tiers whose threshold
\* is at most the revenue, starting from the first tier
RECURSIVE ApplicableTier(_, _, _)
ApplicableTier(applicable, rest, revenue) ==
  IF rest = <<>> THEN applicable
  ELSE IF revenue >= Head(rest).revenue_threshold
       THEN ApplicableTier(Head(rest), Tail(rest), revenue)
       ELSE applicable

\* sortedTiers[0], replaced in turn by every tier of the leading run of
\* tiers whose threshold is at most the revenue
applicableTierOf(revenue, rule) ==
  LET sortedTiers == SortByThreshold(rule.tiers)
  IN ApplicableTier(sortedTiers[1], sortedTiers, revenue)

\* calculateTieredIncentive without the check of the base threshold
calculateTieredIncentiveNoBase(revenue, rule) ==
  IF rule.tiers = <<>> THEN TypeError
  ELSE Returns((revenue * applicableTierOf(revenue, rule).incentive_rate)
                 \div 100)

\* Reading incentive_rate of sortedTiers[0] throws a TypeError when there is
\* no tier.  Revenues are multiples of 100, so the division is exact.
calculateTieredIncentive(revenue, rule) ==
  IF revenue < rule.base_revenue_threshold THEN Returns(0)
  ELSE IF rule.tiers = <<>> THEN TypeError
  ELSE Returns((revenue * applicableTierOf(revenue, rule).incentive_rate)
                 \div 100)

Min(a, b) == IF a <= b THEN a ELSE b

\* The loop of the marginal calculateTieredIncentive (FileManagement.tsx) from
\* tier i on.  The incentive is counted in thousandths: the rate of a 'high'
\* account is the tier's rate times 1.2.
RECURSIVE MarginalFrom(_, _, _, _, _, _)
MarginalFrom(sortedTiers, i, revenue, category, incentive, remainingRevenue) ==
  IF i > Len(sortedTiers) \/ remainingRevenue <= 0 THEN incentive
  ELSE
    LET tierThreshold == sortedTiers[i].revenue_threshold
        applicableRevenue ==
          IF i < Len(sortedTiers)
          THEN Min(remainingRevenue,
                   sortedTiers[i + 1].revenue_threshold - tierThreshold)
          ELSE remainingRevenue
        rate == IF category = "high"
                THEN sortedTiers[i].incentive_rate * 12
                ELSE sortedTiers[i].incentive_rate * 10
    IN IF revenue > tierThreshold
       THEN MarginalFrom(sortedTiers, i + 1, revenue, category,
                         incentive + applicableRevenue * rate,
                         remainingRevenue - applicableRevenue)
       ELSE MarginalFrom(sortedTiers, i + 1, revenue, category, incentive,
                         remainingRevenue)

calculateTieredIncentiveMarginal(revenue, rule, category) ==
  IF revenue < rule.base_revenue_threshold THEN 0
  ELSE MarginalFrom(SortByThreshold(rule.tiers), 1, revenue, category, 0,
                    revenue)

\* The applicableRevenue that the loop of the marginal calculateTieredIncentive
\* charges at the rate of each tier, from tier i on: 0 for a tier the loop
\* passes over or does not reach.
RECURSIVE applicableRevenues(_, _, _, _)
applicableRevenues(sortedTiers, i, revenue, remainingRevenue) ==
  IF i > Len(sortedTiers) THEN <<>>
  ELSE IF remainingRevenue <= 0
  THEN [k \in 1..(Len(sortedTiers) - i + 1) |-> 0]
  ELSE
    LET tierThreshold == sortedTiers[i].revenue_threshold
        applicableRevenue ==
          IF i < Len(sortedTiers)
          THEN Min(remainingRevenue,
                   sortedTiers[i + 1].revenue_threshold - tierThreshold)
          ELSE remainingRevenue
    IN IF revenue > tierThreshold
       THEN <<applicableRevenue>> \o
              applicableRevenues(sortedTiers, i + 1, revenue,
                                 remainingRevenue - applicableRevenue)
       ELSE <<0>> \o
              applicableRevenues(sortedTiers, i + 1, revenue,
                                 remainingRevenue)

\* the sales of an account in the selected month and year
accountSalesOf(account) ==
  SelectSeq(salesData, LAMBDA sale :
     /\ sale.account_id = account.id
     /\ getMonth(sale.date) + 1 = selectedMonth
     /\ getFullYear(sale.date) = selectedYear)

\* a condition that leaves out the accounts at the threshold
qualifiesAbove(accountCommission, rule) ==
  accountCommission > rule.min_commission_threshold

\* accountCommission >= activeRule.min_commission_threshold
qualifies(accountCommission, rule) ==
  accountCommission >= rule.min_commission_threshold

\* the forEach over userAccounts: totals over the qualifying accounts
RECURSIVE AddQualifying(_, _, _)
AddQualifying(totals, userAccounts, rule) ==
  IF userAccounts = <<>> THEN totals
  ELSE
    LET accountSales == accountSalesOf(Head(userAccounts))
        accountCommission ==
          SumOver(accountSales, LAMBDA sale : sale.gross_commission)
        accountRevenue ==
          SumOver(accountSales, LAMBDA sale : sale.total_purchases)
    IN AddQualifying(
         IF qualifies(accountCommission, rule)
         THEN [totalRevenue |-> totals.totalRevenue + accountRevenue,
               totalCommission |-> totals.totalCommission + accountCommission,
               qualifyingAccountsCount |-> totals.qualifyingAccountsCount + 1]
         ELSE totals,
         Tail(userAccounts), rule)

userOverviewOf(user, rule) ==
  LET userAccounts == SelectSeq(accounts, LAMBDA acc : acc.user_id = user.id)
      totals == AddQualifying([totalRevenue |-> 0, totalCommission |-> 0,
                               qualifyingAccountsCount |-> 0],
                              userAccounts, rule)
  IN [user_id |-> user.id,
      user_name |-> user.name,
      total_accounts |-> Len(userAccounts),
      qualifying_accounts |-> totals.qualifyingAccountsCount,
      total_revenue |-> totals.totalRevenue,
      total_commission |-> totals.totalCommission]

RECURSIVE InsertByRevenue(_, _)
InsertByRevenue(sorted, x) ==
  IF sorted = <<>> THEN <<x>>
  ELSE IF Head(sorted).total_revenue >= x.total_revenue
       THEN <<Head(sorted)>> \o InsertByRevenue(Tail(sorted), x)
       ELSE <<x>> \o sorted

RECURSIVE SortByRevenueDesc(_)
\* overview.sort((a, b) => b.total_revenue - a.total_revenue)
SortByRevenueDesc(list) ==
  IF list = <<>> THEN <<>>
  ELSE InsertByRevenue(SortByRevenueDesc(SubSeq(list, 1, Len(list) - 1)),
                       list[Len(list)])

userAccountsOverview ==
  IF activeRule = <<>> THEN <<>>
  ELSE SortByRevenueDesc([i \in DOMAIN users |->
                            userOverviewOf(users[i], activeRule[1])])

\* the Incentive Amount cell of a row of the overview table
IncentiveAmountCell(userOverview) ==
  IF activeRule = <<>>
  THEN [kind |-> "-", amount |-> 0]
  ELSE IF userOverview.total_revenue < activeRule[1].base_revenue_threshold
  THEN [kind |-> "-", amount |-> 0]
  ELSE LET incentive == calculateTieredIncentive(userOverview.total_revenue,
                                                 activeRule[1])
       IN IF incentive.throws THEN [kind |-> "TypeError", amount |-> 0]
          ELSE [kind |-> "amount", amount |-> incentive.value]

\* the accounts of the data store
AccountsTable == [i \in 1..MaxAccounts |-> AccountRow(IdNames[i])]

\* the accounts of a data store in which one user has them all
AccountsOfOneUser ==
  [i \in 1..MaxAccounts |-> [AccountRow(IdNames[i]) EXCEPT !.user_id = "u1"]]

\* The values fetchSalesData can return: [] when the query fails, otherwise
\* rows of sales_data, at most one for an account and a date (the rows are
\* upserted on that key), ordered by date descending.
fetchSalesDataResults ==
  {rows \in SalesLists :
     /\ \A i, j \in DOMAIN rows : i < j => rows[i].date >= rows[j].date
     /\ \A i, j \in DOMAIN rows : i # j => rows[i] # rows[j]}

\* the user opens the overview page: the component mounts and loadData starts
openOverview ==
  /\ page = "rules"
  /\ page' = "overview"
  /\ isLoading' = TRUE
  /\ selectedMonth' = getMonth(now.day) + 1
  /\ selectedYear' = getFullYear(now.day)
  /\ UNCHANGED <<accounts, salesData, now, incentiveRules, users, dbRuleVars,
                 outsideIncentive>>

\* the four fetches of loadData have returned; each returns [] on failure
loadData ==
  /\ page = "overview"
  /\ isLoading
  /\ accounts' \in {<<>>, AccountsTable, AccountsOfOneUser}
  /\ salesData' \in fetchSalesDataResults
  /\ users' \in {<<>>, UserList}
  /\ incentiveRules' \in fetchIncentiveRulesResults
  /\ isLoading' = FALSE
  /\ UNCHANGED <<now, page, selectedMonth, selectedYear, dbRuleVars,
                 outsideIncentive>>

handleMonthSelect ==
  /\ page = "overview"
  /\ ~isLoading
  /\ \E month \in 1..2 : selectedMonth' = month
  /\ UNCHANGED <<accounts, salesData, now, page, isLoading, incentiveRules,
                 users, selectedYear, dbRuleVars, outsideIncentive>>

handleYearSelect ==
  /\ page = "overview"
  /\ ~isLoading
  /\ \E year \in {getFullYear(now.day) - 1, getFullYear(now.day)} :
       selectedYear' = year
  /\ UNCHANGED <<accounts, salesData, now, page, isLoading, incentiveRules,
                 users, selectedMonth, dbRuleVars, outsideIncentive>>

\* the user goes back to the rules page: the overview unmounts
closeOverview ==
  /\ page = "overview"
  /\ ~isLoading
  /\ page' = "rules"
  /\ isLoading' = TRUE
  /\ accounts' = <<>>
  /\ salesData' = <<>>
  /\ users' = <<>>
  /\ incentiveRules' = <<>>
  /\ UNCHANGED <<now, selectedMonth, selectedYear, dbRuleVars,
                 outsideIncentive>>

----------------------------------------------------------------------------
(* FileManagement: loading of the file list *)

FileIds == {"f1", "f2"}
FileRow(id) == [id |-> id, is_pinned |-> id = "f1"]

\* the rows the files query can return: pinned files first
FilesData ==
  {[i \in DOMAIN s |-> FileRow(s[i])] :
     s \in {t \in DistinctSeqsUpTo(FileIds, Cardinality(FileIds)) :
              \A i, j \in DOMAIN t :
                i < j => (FileRow(t[j]).is_pinned => FileRow(t[i]).is_pinned)}}

\* err instanceof Error ? err.message : 'Failed to fetch files'
FetchFilesErrors == {"permission denied for table files",
                     "Failed to fetch files"}

\* What fetchFiles does with the response of the query: it catches the error,
\* keeps its message in the hook's error state and returns [].
fetchFilesReturn(queryError, data) ==
  [threw |-> FALSE,
   value |-> IF queryError = NULL THEN data ELSE <<>>,
   error |-> queryError]

\* what FileManagement renders
FilesScreen ==
  IF fmIsLoading THEN "Loading files..."
  ELSE IF loadError # NULL THEN "Error Loading Files"
  ELSE "File Management"

\* mount: loadFiles runs up to the await of fetchFiles, which runs up to the
\* await of the query
loadFiles ==
  /\ filesQuery = "idle"
  /\ fmIsLoading' = TRUE
  /\ loadError' = NULL
  /\ loading' = TRUE
  /\ error' = NULL
  /\ filesQuery' = "pending"
  /\ UNCHANGED <<files, fmSearchTerm, fmCategoryFilter, viewMode,
                 outsideFiles>>

\* the query has answered: the rest of fetchFiles, then the rest of loadFiles
fetchFilesReturns ==
  /\ filesQuery = "pending"
  /\ \E queryError \in {NULL} \cup FetchFilesErrors : \E data \in FilesData :
       LET filesData == fetchFilesReturn(queryError, data)
       IN /\ queryError # NULL => data = <<>>
          /\ filesQuery' = IF queryError = NULL THEN "ok" ELSE "failed"
          /\ error' = filesData.error
          /\ loading' = FALSE
          /\ IF filesData.threw
             THEN /\ loadError' = "Failed to load files"
                  /\ files' = files
             ELSE /\ loadError' = loadError
                  /\ files' = filesData.value
          /\ fmIsLoading' = FALSE
  /\ UNCHANGED <<fmSearchTerm, fmCategoryFilter, viewMode, outsideFiles>>

setFmSearchTerm ==
  /\ FilesScreen = "File Management"
  /\ \E term \in SearchTerms : fmSearchTerm' = term
  /\ UNCHANGED <<filesQuery, files, fmIsLoading, loadError, fmCategoryFilter,
                 viewMode, hookVars, outsideFiles>>

setFmCategoryFilter ==
  /\ FilesScreen = "File Management"
  /\ \E category \in CategoryFilters : fmCategoryFilter' = category
  /\ UNCHANGED <<filesQuery, files, fmIsLoading, loadError, fmSearchTerm,
                 viewMode, hookVars, outsideFiles>>

setViewMode ==
  /\ FilesScreen = "File Management"
  /\ \E mode \in {"cards", "list"} : viewMode' = mode
  /\ UNCHANGED <<filesQuery, files, fmIsLoading, loadError, fmSearchTerm,
                 fmCategoryFilter, hookVars, outsideFiles>>

\* the user leaves the page: the component unmounts, its state is dropped
leaveFiles ==
  /\ filesQuery # "idle"
  /\ filesQuery' = "idle"
  /\ files' = <<>>
  /\ fmIsLoading' = TRUE
  /\ loadError' = NULL
  /\ fmSearchTerm' = <<>>
  /\ fmCategoryFilter' = "all"
  /\ viewMode' = "cards"
  /\ loading' = FALSE
  /\ error' = NULL
  /\ UNCHANGED outsideFiles

----------------------------------------------------------------------------
(* Profile password form and useSupabase.changePassword *)

\* texts of 0, 7, 8 and 9 characters
Passwords == {"", "passwor", "password", "password2"}
PasswordFields == {"currentPassword", "newPassword", "confirmPassword"}
EmptyPasswordData ==
  [currentPassword |-> "", newPassword |-> "", confirmPassword |-> ""]
Email == "user@example.com"
NoCall == [currentPassword |-> "", newPassword |-> ""]

Failure(message) == <<[success |-> FALSE, message |-> message]>>
Success(message) == <<[success |-> TRUE, message |-> message]>>

\* the two checks of handlePasswordSubmit without the check of the length
validationErrorNoLength(data) ==
  IF data.newPassword # data.confirmPassword
  THEN "New passwords do not match"
  ELSE NULL

\* the two checks at the head of handlePasswordSubmit: the message of the
\* check that fails, NULL when both pass
validationError(data) ==
  IF data.newPassword # data.confirmPassword
  THEN "New passwords do not match"
  ELSE IF Len(data.newPassword) < 8
  THEN "Password must be at least 8 characters long"
  ELSE NULL

\* setShowPasswordForm(true), the Change Password button
openPasswordForm ==
  /\ ~showPasswordForm
  /\ ~isSaving
  /\ showPasswordForm' = TRUE
  /\ UNCHANGED <<passwordData, isSaving, saveResult, clearTimers, authVars,
                 hookVars, outsideProfile>>

\* the inputs are disabled while isSaving
handlePasswordChange ==
  /\ showPasswordForm
  /\ ~isSaving
  /\ \E field \in PasswordFields : \E value \in Passwords :
       passwordData' = [passwordData EXCEPT ![field] = value]
  /\ UNCHANGED <<showPasswordForm, isSaving, saveResult, clearTimers,
                 authVars, hookVars, outsideProfile>>

\* the Cancel button of the password form
cancelPasswordForm ==
  /\ showPasswordForm
  /\ ~isSaving
  /\ showPasswordForm' = FALSE
  /\ passwordData' = EmptyPasswordData
  /\ saveResult' = <<>>
  /\ UNCHANGED <<isSaving, clearTimers, authVars, hookVars, outsideProfile>>

\* an auth call as issued, and as answered
Issued(op, arg) == [op |-> op, arg |-> arg, status |-> "pending"]
Answered(calls, status) ==
  [calls EXCEPT ![Len(calls)] = [@ EXCEPT !.status = status]]

\* handlePasswordSubmit up to the await of changePassword, and changePassword
\* up to the await of auth.getUser.  The handler is modelled for every content
\* of the fields: the browser's own validation of the form (required,
\* minLength) is not relied on.
handlePasswordSubmit ==
  /\ showPasswordForm
  /\ ~isSaving
  /\ pc = "idle"
  /\ IF validationError(passwordData) # NULL
     THEN /\ saveResult' = Failure(validationError(passwordData))
          /\ UNCHANGED <<isSaving, authVars, hookVars>>
     ELSE /\ isSaving' = TRUE
          /\ saveResult' = <<>>
          /\ loading' = TRUE
          /\ error' = NULL
          /\ call' = [currentPassword |-> passwordData.currentPassword,
                      newPassword |-> passwordData.newPassword]
          /\ pc' = "getUser"
          /\ authCalls' = <<Issued("getUser", NULL)>>
          /\ changePasswordResult' = "pending"
          /\ UNCHANGED storedPassword
  /\ UNCHANGED <<showPasswordForm, passwordData, clearTimers, outsideProfile>>

\* changePassword from its catch on (it returns false) and the rest of
\* handlePasswordSubmit for a result that is not true: only the finally block
changePasswordFails(message) ==
  /\ error' = message
  /\ loading' = FALSE
  /\ changePasswordResult' = "false"
  /\ pc' = "idle"
  /\ isSaving' = FALSE
  /\ UNCHANGED <<showPasswordForm, passwordData, saveResult, clearTimers,
                 call, storedPassword>>

\* auth.getUser has answered: a user with an email, no user, or a rejection
getUserReturns ==
  /\ pc = "getUser"
  /\ \E answer \in {"user", "no user", "rejected"} :
       IF answer = "user"
       THEN /\ pc' = "signInWithPassword"
            /\ authCalls' =
                 Append(Answered(authCalls, "ok"),
                        Issued("signInWithPassword",
                               [email |-> Email,
                                password |-> call.currentPassword]))
            /\ UNCHANGED <<pfVars, hookVars, call, changePasswordResult,
                           storedPassword>>
       ELSE /\ authCalls' = Answered(authCalls, "error")
            /\ changePasswordFails(IF answer = "no user"
                                   THEN "No authenticated user found"
                                   ELSE "Failed to change password")
  /\ UNCHANGED outsideProfile

\* the step of changePassword after signInWithPassword without the check of
\* signInError
afterSignInUnchecked(signInError) == "updateUser"

\* the step of changePassword after signInWithPassword
afterSignIn(signInError) ==
  IF signInError THEN "throw" ELSE "updateUser"

\* signInWithPassword has answered; it succeeds only with the stored password
signInReturns ==
  /\ pc = "signInWithPassword"
  /\ \E signInError \in BOOLEAN :
       /\ ~signInError => call.currentPassword = storedPassword
       /\ IF afterSignIn(signInError) = "updateUser"
          THEN /\ pc' = "updateUser"
               /\ authCalls' =
                    Append(Answered(authCalls,
                                    IF signInError THEN "error" ELSE "ok"),
                           Issued("updateUser",
                                  [password |-> call.newPassword]))
               /\ UNCHANGED <<pfVars, hookVars, call, changePasswordResult,
                              storedPassword>>
          ELSE /\ authCalls' = Answered(authCalls, "error")
               /\ changePasswordFails("Current password is incorrect")
  /\ UNCHANGED outsideProfile

\* auth.updateUser has answered: the password is stored, or the update is
\* rejected; then the rest of changePassword and of handlePasswordSubmit
updateUserReturns ==
  /\ pc = "updateUser"
  /\ \E updateError \in BOOLEAN :
       IF updateError
       THEN /\ authCalls' = Answered(authCalls, "error")
            /\ changePasswordFails("New password should be different")
       ELSE /\ clearTimers < MaxTimers
            /\ authCalls' = Answered(authCalls, "ok")
            /\ storedPassword' = call.newPassword
            /\ loading' = FALSE
            /\ changePasswordResult' = "true"
            /\ pc' = "idle"
            /\ saveResult' = Success("Password changed successfully!")
            /\ passwordData' = EmptyPasswordData
            /\ showPasswordForm' = FALSE
            /\ clearTimers' = clearTimers + 1
            /\ isSaving' = FALSE
            /\ UNCHANGED <<error, call>>
  /\ UNCHANGED outsideProfile

\* setTimeout(() => setSaveResult(null), 3000) fires
clearSaveResult ==
  /\ clearTimers > 0
  /\ clearTimers' = clearTimers - 1
  /\ saveResult' = <<>>
  /\ UNCHANGED <<showPasswordForm, passwordData, isSaving, authVars,
                 hookVars, outsideProfile>>

----------------------------------------------------------------------------
(* Profile: editing and saving the profile, useSupabase.updateProfile *)

Texts == {"", "A"}
EditableFields == {"name", "phone", "address", "bio"}

\* the users the profile page is opened for
ProfileUser ==
  [id |-> "u1", name |-> "N", email |-> Email, company |-> NULL,
   role |-> "user", phone |-> NULL, address |-> NULL, bio |-> NULL,
   managed_accounts |-> <<"acc1">>]
ProfileUsers ==
  {ProfileUser,
   [ProfileUser EXCEPT !.id = "u2", !.role = "superadmin",
                       !.company = "Kimo", !.phone = "A",
                       !.managed_accounts = <<>>]}

\* value || ''  and  value || null  of a text or null
orEmpty(value) == IF value = NULL THEN "" ELSE value
orNull(value) == IF value = "" THEN NULL ELSE value

\* the form data built from currentUser (joinDate is not modelled)
profileDataOf(user) ==
  [name |-> user.name,
   email |-> user.email,
   company |-> IF user.company \in {NULL, ""} THEN "Kimo Studio"
               ELSE user.company,
   role |-> IF user.role = "superadmin" THEN "Super Administrator"
            ELSE "User",
   phone |-> orEmpty(user.phone),
   address |-> orEmpty(user.address),
   bio |-> orEmpty(user.bio)]

\* an update that also sends the role shown in the form
updateFieldsWithRole(data) ==
  [name |-> data.name, phone |-> orNull(data.phone),
   address |-> orNull(data.address), bio |-> orNull(data.bio),
   role |-> data.role]

\* the second argument of updateProfile in handleSave
updateFields(data) ==
  [name |-> data.name, phone |-> orNull(data.phone),
   address |-> orNull(data.address), bio |-> orNull(data.bio)]

\* a row with the columns of fields replaced: .update(fields) of the data
\* store, and the object spread { ...row, ...fields }
Merge(row, fields) ==
  [f \in DOMAIN row \cup DOMAIN fields |->
     IF f \in DOMAIN fields THEN fields[f] ELSE row[f]]

\* the Edit Profile button
startEditing ==
  /\ ~isEditing
  /\ ~isSaving
  /\ ~loading
  /\ isEditing' = TRUE
  /\ UNCHANGED <<currentUser, profileData, storedUser, profileUpdate,
                 isSaving, saveResult, clearTimers, hookVars,
                 outsideProfileEdit>>

\* the inputs of the form: name, phone, address and bio
handleInputChange ==
  /\ isEditing
  /\ ~isSaving
  /\ \E field \in EditableFields : \E value \in Texts :
       profileData' = [profileData EXCEPT ![field] = value]
  /\ UNCHANGED <<currentUser, isEditing, storedUser, profileUpdate,
                 isSaving, saveResult, clearTimers, hookVars,
                 outsideProfileEdit>>

\* the Cancel button of the profile form
cancelEditing ==
  /\ isEditing
  /\ ~isSaving
  /\ isEditing' = FALSE
  /\ saveResult' = <<>>
  /\ profileData' = profileDataOf(currentUser[1])
  /\ UNCHANGED <<currentUser, storedUser, profileUpdate, isSaving,
                 clearTimers, hookVars, outsideProfileEdit>>

\* handleSave up to the await of updateProfile, and updateProfile up to the
\* await of the update
handleSave ==
  /\ isEditing
  /\ ~isSaving
  /\ isSaving' = TRUE
  /\ saveResult' = <<>>
  /\ loading' = TRUE
  /\ error' = NULL
  /\ profileUpdate' = <<[userId |-> currentUser[1].id,
                         fields |-> updateFields(profileData)]>>
  /\ UNCHANGED <<currentUser, isEditing, profileData, storedUser,
                 clearTimers, outsideProfileEdit>>

\* The update has answered: with the updated row, without a row, or with an
\* error; then the rest of updateProfile and of handleSave.  The parent's
\* onUserUpdate is outside the component: the prop currentUser becomes its
\* argument or stays as it is.
updateProfileReturns ==
  /\ profileUpdate # <<>>
  /\ \E answer \in {"row", "no row", "error"} :
       IF answer = "row" /\ profileUpdate[1].userId = storedUser.id
       THEN \E updatedUser \in {Merge(storedUser, profileUpdate[1].fields)} :
              /\ clearTimers < MaxTimers
              /\ storedUser' = updatedUser
              /\ currentUser' \in {currentUser,
                                   <<Merge(currentUser[1], updatedUser)>>}
              /\ profileData' =
                   [profileData EXCEPT
                      !.name = updatedUser.name,
                      !.phone = orEmpty(updatedUser.phone),
                      !.address = orEmpty(updatedUser.address),
                      !.bio = orEmpty(updatedUser.bio)]
              /\ saveResult' = Success("Profile updated successfully!")
              /\ isEditing' = FALSE
              /\ clearTimers' = clearTimers + 1
              /\ error' = error
       ELSE /\ saveResult' = Failure("Failed to update profile")
            /\ error' = IF answer = "error" THEN "Failed to update profile"
                        ELSE error
            /\ UNCHANGED <<currentUser, storedUser, profileData, isEditing,
                           clearTimers>>
  /\ loading' = FALSE
  /\ isSaving' = FALSE
  /\ profileUpdate' = <<>>
  /\ UNCHANGED outsideProfileEdit

----------------------------------------------------------------------------
(* FileManagement: the controls of the administrator *)

\* the ids the data store gives to the files, in this order
FileIdNames == <<"f1", "f2">>
categories == <<[id |-> "cat1"]>>

EmptyFormData ==
  [name |-> "", category_id |-> NULL, spreadsheet_url |-> "",
   description |-> ""]

\* what the user enters in the inputs of the modal
FormInputs ==
  [name |-> {"B"}, category_id |-> {"cat1"}, spreadsheet_url |-> {"U"},
   description |-> {""}]

\* a row of table files
StoredFile(id, file) ==
  [id |-> id, name |-> file.name, category_id |-> file.category_id,
   spreadsheet_url |-> file.spreadsheet_url,
   description |-> file.description, is_pinned |-> file.is_pinned,
   created_by |-> file.created_by]

\* isAdmin for a component that shows the controls to everyone
isAdminAnyone == TRUE

\* currentUser.role === 'superadmin'
isAdmin == currentUser[1].role = "superadmin"

\* the condition under which the modal is rendered
ModalShown == fmShowModal /\ isAdmin

\* the list of files with its row controls can be used
FileListUsable == FilesScreen = "File Management" /\ ~ModalShown

FindFile(list, id) ==
  IF \E i \in DOMAIN list : list[i].id = id
  THEN <<list[CHOOSE i \in DOMAIN list :
            list[i].id = id /\ \A j \in DOMAIN list : list[j].id = id => i <= j]>>
  ELSE <<>>

\* a map that puts updatedFile in the place of every file
ReplaceEveryFile(list, id, updatedFile) ==
  [i \in DOMAIN list |-> updatedFile]

\* prev.map(file => file.id === id ? updatedFile : file)
ReplaceFile(list, id, updatedFile) ==
  [i \in DOMAIN list |-> IF list[i].id = id THEN updatedFile ELSE list[i]]

\* A pending call: the function, its arguments (data is <<>> for a call
\* without data) and the handler that awaits it.  closed is history: the
\* modal has been closed since the call started.
Request(op, id, data, from) ==
  [op |-> op, id |-> id, data |-> data, from |-> from, closed |-> FALSE]

\* Bounds of the model: a Save or a Delete is clicked while fewer than
\* MaxRequests calls are pending, a pin while fewer than MaxPinRequests are.
CanRequest == BagCardinality(fileRequests) < MaxRequests
CanRequestPin == BagCardinality(fileRequests) < MaxPinRequests

\* A call of addFile, updateFile or deleteFile up to its await.  The
\* component reads neither loading nor error of the hook; they are left out
\* of this part of the model.
StartRequest(request) ==
  /\ fileRequests' = fileRequests (+) SetToBag({request})
  /\ lastReturn' = <<>>
  /\ UNCHANGED hookVars

handleAdd ==
  /\ isAdmin
  /\ FileListUsable
  /\ editingFile' = <<>>
  /\ fmFormData' =
       [EmptyFormData EXCEPT
          !.category_id = IF categories # <<>> THEN categories[1].id
                          ELSE NULL]
  /\ fmShowModal' = TRUE
  /\ lastReturn' = <<>>
  /\ UNCHANGED <<pinEpisode, currentUser, files, viewMode, filesTable, filesCreated,
                 fmIsSaving, fmSaveResult, autoCloseTimers, fileRequests,
                 hookVars, outsideFileAdmin>>

handleEdit ==
  /\ isAdmin
  /\ FileListUsable
  /\ \E i \in DOMAIN files :
       /\ editingFile' = <<files[i]>>
       /\ fmFormData' =
            [name |-> files[i].name,
             category_id |-> files[i].category_id,
             spreadsheet_url |-> files[i].spreadsheet_url,
             description |-> orEmpty(files[i].description)]
  /\ fmShowModal' = TRUE
  /\ lastReturn' = <<>>
  /\ UNCHANGED <<pinEpisode, currentUser, files, viewMode, filesTable, filesCreated,
                 fmIsSaving, fmSaveResult, autoCloseTimers, fileRequests,
                 hookVars, outsideFileAdmin>>

\* the inputs of the modal, disabled while isSaving
setFormData ==
  /\ ModalShown
  /\ ~fmIsSaving
  /\ \E field \in DOMAIN FormInputs : \E value \in FormInputs[field] :
       fmFormData' = [fmFormData EXCEPT ![field] = value]
  /\ lastReturn' = <<>>
  /\ UNCHANGED <<pinEpisode, currentUser, files, viewMode, filesTable, filesCreated,
                 fmShowModal, editingFile, fmIsSaving, fmSaveResult,
                 autoCloseTimers, fileRequests, hookVars, outsideFileAdmin>>

\* what closeModal sets
closeModalEffect ==
  /\ fmShowModal' = FALSE
  /\ editingFile' = <<>>
  /\ fmSaveResult' = <<>>
  /\ fmIsSaving' = FALSE
  /\ fmFormData' = EmptyFormData

\* history: the pending calls of handleSubmit and the pending timeouts were
\* started from a modal that has been closed since
AllClosed(timers) == [i \in DOMAIN timers |-> TRUE]
CloseRequest(request) ==
  IF request.from = "submit" THEN [request EXCEPT !.closed = TRUE]
  ELSE request
CopiesOf(request, requests) ==
  IF request \in DOMAIN requests THEN requests[request] ELSE 0
MarkClosed(requests) ==
  [closed \in {CloseRequest(request) : request \in DOMAIN requests} |->
     IF closed.from = "submit"
     THEN CopiesOf(closed, requests)
            + CopiesOf([closed EXCEPT !.closed = FALSE], requests)
     ELSE requests[closed]]

\* the X button of the modal (the Cancel button is disabled while isSaving)
closeModal ==
  /\ ModalShown
  /\ closeModalEffect
  /\ autoCloseTimers' = AllClosed(autoCloseTimers)
  /\ fileRequests' = MarkClosed(fileRequests)
  /\ lastReturn' = <<>>
  /\ UNCHANGED <<pinEpisode, currentUser, files, viewMode, filesTable,
                 filesCreated, hookVars, outsideFileAdmin>>

\* setTimeout(() => { closeModal(); }, 2000) fires: the oldest timeout
autoClose ==
  /\ autoCloseTimers # <<>>
  /\ autoCloseTimers' = AllClosed(Tail(autoCloseTimers))
  /\ closeModalEffect
  /\ fileRequests' = MarkClosed(fileRequests)
  /\ lastReturn' = <<>>
  /\ UNCHANGED <<pinEpisode, currentUser, files, viewMode, filesTable,
                 filesCreated, hookVars, outsideFileAdmin>>

\* the requests of a bag that satisfy Keep
SelectBag(requests, Keep(_)) ==
  [request \in {r \in DOMAIN requests : Keep(r)} |-> requests[request]]
PendingFrom(from) ==
  BagCardinality(SelectBag(fileRequests, LAMBDA r : r.from = from))
PendingAdds ==
  BagCardinality(SelectBag(fileRequests, LAMBDA r : r.op = "add"))

\* newFileData of handleSubmit (the random file_size is left out)
newFileDataOf(formData, user) ==
  [name |-> formData.name,
   category_id |-> orNull(formData.category_id),
   spreadsheet_url |-> formData.spreadsheet_url,
   description |-> formData.description,
   is_pinned |-> FALSE,
   created_by |-> user.id]

\* the inputs marked required are filled: the form can be submitted
RequiredFilled(formData) ==
  /\ formData.name # ""
  /\ orNull(formData.category_id) # NULL
  /\ formData.spreadsheet_url # ""

\* handleSubmit up to the await of updateFile or addFile
handleSubmit ==
  /\ ModalShown
  /\ ~fmIsSaving
  /\ RequiredFilled(fmFormData)
  /\ CanRequest
  /\ Len(autoCloseTimers) + PendingFrom("submit") < MaxTimers
  /\ editingFile = <<>> => filesCreated + PendingAdds < Len(FileIdNames)
  /\ fmIsSaving' = TRUE
  /\ fmSaveResult' = <<>>
  /\ StartRequest(IF editingFile # <<>>
                  THEN Request("update", editingFile[1].id, <<fmFormData>>,
                               "submit")
                  ELSE Request("add", NULL,
                               <<newFileDataOf(fmFormData, currentUser[1])>>,
                               "submit"))
  /\ UNCHANGED <<pinEpisode, currentUser, files, viewMode, filesTable, filesCreated,
                 fmShowModal, editingFile, fmFormData, autoCloseTimers,
                 outsideFileAdmin>>

\* handleDelete with the confirm dialog answered yes, up to the await
handleDelete ==
  /\ isAdmin
  /\ FileListUsable
  /\ CanRequest
  /\ \E i \in DOMAIN files :
       StartRequest(Request("delete", files[i].id, <<>>, "delete"))
  /\ UNCHANGED <<pinEpisode, currentUser, files, viewMode, filesTable, filesCreated,
                 fmShowModal, editingFile, fmFormData, fmIsSaving,
                 fmSaveResult, autoCloseTimers, outsideFileAdmin>>

\* the update that handleTogglePin sends for the file it found in files
togglePinUpdates(file) == [is_pinned |-> ~file.is_pinned]

\* handleTogglePin up to the await of updateFile
handleTogglePin ==
  /\ isAdmin
  /\ FileListUsable
  /\ CanRequestPin
  /\ \E i \in DOMAIN files :
       \E file \in {FindFile(files, files[i].id)[1]} :
         /\ StartRequest(Request("update", file.id,
                                 <<togglePinUpdates(file)>>, "pin"))
         /\ pinEpisode' =
              IF pinEpisode = <<>>
              THEN <<[id |-> file.id, original |-> file.is_pinned,
                      clicks |-> 1, failed |-> FALSE]>>
              ELSE IF pinEpisode[1].id = file.id
              THEN <<[pinEpisode[1] EXCEPT
                        !.clicks = IF @ < 3 THEN @ + 1 ELSE @]>>
              ELSE pinEpisode
  /\ UNCHANGED <<currentUser, files, viewMode, filesTable, filesCreated,
                 fmShowModal, editingFile, fmFormData, fmIsSaving,
                 fmSaveResult, autoCloseTimers, outsideFileAdmin>>

RemoveRequest(request) == fileRequests (-) SetToBag({request})

\* What the data store answers to a request, as the hook returns it: the row
\* for addFile and updateFile (<<>> for null), TRUE or FALSE for deleteFile.
\* An update that matches no row answers without a row and without an error.
AnswerOf(request, failed) ==
  IF request.op = "add"
  THEN IF failed THEN <<>>
       ELSE <<StoredFile(FileIdNames[filesCreated + 1], request.data[1])>>
  ELSE IF request.op = "update"
  THEN IF failed \/ FindFile(filesTable, request.id) = <<>> THEN <<>>
       ELSE <<Merge(FindFile(filesTable, request.id)[1], request.data[1])>>
  ELSE ~failed

\* table files after the request
TableAfter(request, answer) ==
  IF request.op = "add"
  THEN IF answer = <<>> THEN filesTable ELSE Append(filesTable, answer[1])
  ELSE IF request.op = "update"
  THEN IF answer = <<>> THEN filesTable
       ELSE ReplaceFile(filesTable, request.id, answer[1])
  ELSE IF answer
       THEN SelectSeq(filesTable, LAMBDA file : file.id # request.id)
       ELSE filesTable

FailureMessage(request) ==
  IF request.op = "add" THEN "Failed to add file"
  ELSE IF request.op = "update" THEN "Failed to update file"
  ELSE "Failed to delete file"

\* A request has been answered: the rest of addFile, updateFile or deleteFile
\* and the rest of the handler that awaited it.
fileRequestReturns ==
  /\ \E request \in BagToSet(fileRequests) : \E failed \in BOOLEAN :
       \E answer \in {AnswerOf(request, failed)} :
         /\ request.op = "add" /\ ~failed => filesCreated < Len(FileIdNames)
         /\ filesTable' = TableAfter(request, answer)
         /\ filesCreated' = IF request.op = "add" /\ answer # <<>>
                            THEN filesCreated + 1 ELSE filesCreated
         /\ fileRequests' = RemoveRequest(request)
         /\ lastReturn' =
              <<[op |-> request.op, id |-> request.id,
                 from |-> request.from,
                 ok |-> IF request.op = "delete" THEN answer
                        ELSE answer # <<>>]>>
         /\ pinEpisode' =
              IF pinEpisode # <<>> /\ request.from = "pin"
                   /\ request.id = pinEpisode[1].id
              THEN IF \E other \in BagToSet(RemoveRequest(request)) :
                        other.from = "pin" /\ other.id = request.id
                   THEN <<[pinEpisode[1] EXCEPT
                             !.failed = @ \/ answer = <<>>]>>
                   ELSE <<>>
              ELSE pinEpisode
         /\ IF request.from = "submit"
            THEN /\ IF answer # <<>>
                    THEN /\ files' = IF request.op = "update"
                                     THEN ReplaceFile(files, request.id,
                                                      answer[1])
                                     ELSE <<answer[1]>> \o files
                         /\ fmSaveResult' =
                              Success(IF request.op = "update"
                                      THEN "File updated successfully!"
                                      ELSE "File added successfully!")
                         /\ autoCloseTimers' =
                              Append(autoCloseTimers, request.closed)
                    ELSE /\ fmSaveResult' = Failure(FailureMessage(request))
                         /\ UNCHANGED <<files, autoCloseTimers>>
                 /\ fmIsSaving' = FALSE
            ELSE /\ files' =
                      IF request.from = "pin"
                      THEN IF answer # <<>>
                           THEN ReplaceFile(files, request.id, answer[1])
                           ELSE files
                      ELSE IF answer
                           THEN SelectSeq(files, LAMBDA file :
                                            file.id # request.id)
                           ELSE files
                 /\ UNCHANGED <<fmSaveResult, autoCloseTimers, fmIsSaving>>
  /\ UNCHANGED <<currentUser, viewMode, fmShowModal, editingFile, fmFormData,
                 hookVars, outsideFileAdmin>>

\* the cards/list switch, shown to every user
switchViewMode ==
  /\ FileListUsable
  /\ \E mode \in {"cards", "list"} : viewMode' = mode
  /\ lastReturn' = <<>>
  /\ UNCHANGED <<pinEpisode, currentUser, files, filesTable, filesCreated, fmShowModal,
                 editingFile, fmFormData, fmIsSaving, fmSaveResult,
                 autoCloseTimers, fileRequests, hookVars, outsideFileAdmin>>

----------------------------------------------------------------------------
(* AccountManagement: the modal, the inline edit and the row buttons *)

\* formData as useState and closeModal set it
EmptyAccountForm(cu) ==
  [username |-> <<>>, email |-> <<>>, phone |-> <<>>, status |-> "active",
   payment_data |-> "belum diatur", category_id |-> "",
   user_id |-> IF cu = <<>> THEN NULL ELSE cu[1].id]

\* what the user enters in the modal
ModalInputs == [username |-> {<<"B">>}, email |-> {<<"a">>}]

\* what the user chooses in the select of the inline edit
InlineInputs ==
  [status |-> {"active"}, payment_data |-> {"sah"}, category_id |-> {"cat1"}]

\* the Category Management view replaces the page; the modal covers it
AccountListUsable == ~showCategoryManagement /\ ~amShowModal

\* a delete button that every user is shown
deleteShownToAll == TRUE

\* currentUser?.role === 'superadmin' of the delete button and of Manage
\* Categories
deleteShown == currentUser # <<>> /\ currentUser[1].role = "superadmin"

\* The callbacks are props: the parent answers a call by passing the changed
\* accounts or, when the change failed, the same accounts.
AccountsAfterUpdate(id, updates) ==
  {accounts,
   [i \in DOMAIN accounts |->
      IF accounts[i].id = id THEN Merge(accounts[i], updates)
      ELSE accounts[i]]}

AccountsAfterDelete(id) ==
  {accounts, SelectSeq(accounts, LAMBDA account : account.id # id)}

UnusedAccountIds == AccountIds \ {accounts[i].id : i \in DOMAIN accounts}

AccountsAfterAdd(accountData) ==
  {accounts} \cup
    {<<Merge([id |-> id, account_code |-> <<>>], accountData)>> \o accounts :
       id \in UnusedAccountIds}

openCategoryManagement ==
  /\ deleteShown
  /\ AccountListUsable
  /\ showCategoryManagement' = TRUE
  /\ lastCall' = <<>>
  /\ UNCHANGED <<accounts, currentUser, amVars, amShowModal, editingAccount,
                 editingField, amFormData, outsideAccountActions>>

\* Back to Accounts
closeCategoryManagement ==
  /\ showCategoryManagement
  /\ showCategoryManagement' = FALSE
  /\ lastCall' = <<>>
  /\ UNCHANGED <<accounts, currentUser, amVars, amShowModal, editingAccount,
                 editingField, amFormData, outsideAccountActions>>

\* CategoryManagement calls one of the callbacks it was given
categoryCall ==
  /\ showCategoryManagement
  /\ \E fn \in {"onAddCategory", "onUpdateCategory", "onDeleteCategory"} :
       lastCall' = <<[fn |-> fn]>>
  /\ UNCHANGED <<accounts, currentUser, amVars, amShowModal, editingAccount,
                 showCategoryManagement, editingField, amFormData,
                 outsideAccountActions>>

amHandleAdd ==
  /\ AccountListUsable
  /\ editingAccount' = <<>>
  /\ amFormData' = EmptyAccountForm(currentUser)
  /\ amShowModal' = TRUE
  /\ lastCall' = <<>>
  /\ UNCHANGED <<accounts, currentUser, amVars, showCategoryManagement,
                 editingField, outsideAccountActions>>

amHandleEdit ==
  /\ AccountListUsable
  /\ \E i \in DOMAIN filteredAccounts :
       \E account \in {filteredAccounts[i]} :
         /\ editingAccount' = <<account>>
         /\ amFormData' =
              [username |-> account.username, email |-> account.email,
               phone |-> account.phone, status |-> account.status,
               payment_data |-> account.payment_data,
               category_id |-> account.category_id,
               user_id |-> account.user_id]
  /\ amShowModal' = TRUE
  /\ lastCall' = <<>>
  /\ UNCHANGED <<accounts, currentUser, amVars, showCategoryManagement,
                 editingField, outsideAccountActions>>

\* the inputs of the modal
amSetFormData ==
  /\ amShowModal
  /\ ~showCategoryManagement
  /\ \E field \in DOMAIN ModalInputs : \E value \in ModalInputs[field] :
       amFormData' = [amFormData EXCEPT ![field] = value]
  /\ lastCall' = <<>>
  /\ UNCHANGED <<accounts, currentUser, amVars, amShowModal, editingAccount,
                 showCategoryManagement, editingField, outsideAccountActions>>

amCloseModalEffect ==
  /\ amShowModal' = FALSE
  /\ editingAccount' = <<>>
  /\ amFormData' = EmptyAccountForm(currentUser)

amCloseModal ==
  /\ amShowModal
  /\ ~showCategoryManagement
  /\ amCloseModalEffect
  /\ lastCall' = <<>>
  /\ UNCHANGED <<accounts, currentUser, amVars, showCategoryManagement,
                 editingField, outsideAccountActions>>

\* the inputs marked required are filled: the form can be submitted
AccountRequiredFilled(formData) ==
  formData.username # <<>> /\ formData.email # <<>>

\* a payload that keeps the user_id the form holds
accountDataAsLoaded(formData, cu) == formData

\* accountData: { ...formData, user_id: currentUser?.id || null }
accountDataOf(formData, cu) ==
  [formData EXCEPT !.user_id = IF cu = <<>> THEN NULL ELSE cu[1].id]

amHandleSubmit ==
  /\ amShowModal
  /\ ~showCategoryManagement
  /\ AccountRequiredFilled(amFormData)
  /\ \E accountData \in {accountDataOf(amFormData, currentUser)} :
       IF editingAccount # <<>>
       THEN /\ lastCall' = <<[fn |-> "onUpdateAccount",
                              id |-> editingAccount[1].id,
                              updates |-> accountData]>>
            /\ accounts' \in
                 AccountsAfterUpdate(editingAccount[1].id, accountData)
       ELSE /\ lastCall' = <<[fn |-> "onAddAccount", id |-> NULL,
                              updates |-> accountData]>>
            /\ accounts' \in AccountsAfterAdd(accountData)
  /\ amCloseModalEffect
  /\ UNCHANGED <<currentUser, amVars, showCategoryManagement, editingField,
                 outsideAccountActions>>

\* a click on the status, payment or category cell of a row
startInlineEdit ==
  /\ AccountListUsable
  /\ \E i \in DOMAIN filteredAccounts : \E field \in DOMAIN InlineInputs :
       editingField' =
         <<[accountId |-> filteredAccounts[i].id, field |-> field]>>
  /\ lastCall' = <<>>
  /\ UNCHANGED <<accounts, currentUser, amVars, amShowModal, editingAccount,
                 showCategoryManagement, amFormData, outsideAccountActions>>

\* the row that shows the select of the inline edit
InlineEditShown ==
  /\ AccountListUsable
  /\ editingField # <<>>
  /\ \E i \in DOMAIN filteredAccounts :
       filteredAccounts[i].id = editingField[1].accountId

\* the X next to the select
cancelInlineEdit ==
  /\ InlineEditShown
  /\ editingField' = <<>>
  /\ lastCall' = <<>>
  /\ UNCHANGED <<accounts, currentUser, amVars, amShowModal, editingAccount,
                 showCategoryManagement, amFormData, outsideAccountActions>>

\* onChange of the select
handleInlineEdit ==
  /\ InlineEditShown
  /\ \E accountId \in {editingField[1].accountId} :
     \E field \in {editingField[1].field} :
     \E value \in InlineInputs[field] :
     \E updates \in {[f \in {field} |-> value]} :
       /\ lastCall' = <<[fn |-> "onUpdateAccount", id |-> accountId,
                         updates |-> updates]>>
       /\ accounts' \in AccountsAfterUpdate(accountId, updates)
  /\ editingField' = <<>>
  /\ UNCHANGED <<currentUser, amVars, amShowModal, editingAccount,
                 showCategoryManagement, amFormData, outsideAccountActions>>

\* the delete button of a row
deleteAccountClick ==
  /\ deleteShown
  /\ AccountListUsable
  /\ \E i \in DOMAIN filteredAccounts :
       /\ lastCall' = <<[fn |-> "onDeleteAccount",
                         id |-> filteredAccounts[i].id]>>
       /\ accounts' \in AccountsAfterDelete(filteredAccounts[i].id)
  /\ UNCHANGED <<currentUser, amVars, amShowModal, editingAccount,
                 showCategoryManagement, editingField, amFormData,
                 outsideAccountActions>>

----------------------------------------------------------------------------
(* useSupabase: addAccount and deleteAccount on the data store *)

StoredUsers ==
  [u \in UserIds |->
     [role |-> IF u = "u1" THEN "user" ELSE "superadmin",
      managed_accounts |-> <<>>]]

\* An addAccount call: pc is the await it is at, auth the answer of getUser
\* (<<>> or <<user id>>), user_id the user_id of the insert, data the created
\* row (<<>> or <<row>>), read the managed_accounts it has read.  faulty is
\* history: the data store has answered a request of the call with an error.
AddCall(user_id) ==
  [pc |-> "getUser", account_user_id |-> user_id, auth |-> <<>>,
   user_id |-> NULL, data |-> <<>>, read |-> <<>>, faulty |-> FALSE]

\* account.user_id || currentUser?.user?.id || null
assignedUserId(account_user_id, auth) ==
  IF account_user_id # NULL THEN account_user_id
  ELSE IF auth # <<>> THEN auth[1]
  ELSE NULL

\* data && currentUser?.user && accountData.user_id === currentUser.user.id
autoAssigns(adding, data) ==
  /\ data # <<>>
  /\ adding.auth # <<>>
  /\ adding.user_id = adding.auth[1]

ReplaceCall(adding, next) ==
  (addCalls (-) SetToBag({adding})) (+) SetToBag({next})

\* return of addAccount: finally setLoading(false)
addAccountReturn(adding, data) ==
  /\ addCalls' = addCalls (-) SetToBag({adding})
  /\ addReturn' = <<[auth |-> adding.auth, data |-> data,
                      faulty |-> adding.faulty]>>
  /\ loading' = FALSE

\* addAccount up to the await of getUser
addAccount ==
  /\ accountsCreated + BagCardinality(addCalls) < MaxAccounts
  /\ \E user_id \in UserIds \cup {NULL} :
       addCalls' = addCalls (+) SetToBag({AddCall(user_id)})
  /\ loading' = TRUE
  /\ error' = NULL
  /\ addReturn' = <<>>
  /\ UNCHANGED <<accountsTable, accountsCreated, usersTable, deleteCalls,
                 outsideAccountStore>>

\* supabase.auth.getUser() answers: up to the await of the insert.  The
\* form sends the id of the signed-in user or no user_id.
authGetUserReturns ==
  /\ \E adding \in BagToSet(addCalls) :
       /\ adding.pc = "getUser"
       /\ \E auth \in {<<>>} \cup {<<u>> : u \in UserIds} :
            /\ adding.account_user_id # NULL =>
                 auth = <<adding.account_user_id>>
            /\ addCalls' =
                 ReplaceCall(adding,
                   [adding EXCEPT
                      !.pc = "insert", !.auth = auth,
                      !.user_id = assignedUserId(adding.account_user_id, auth)])
  /\ addReturn' = <<>>
  /\ UNCHANGED <<accountsTable, accountsCreated, usersTable, deleteCalls,
                 hookVars, outsideAccountStore>>

\* the insert answers: up to the await of the select on users, or the return
insertAccountReturns ==
  /\ \E adding \in BagToSet(addCalls) : \E failed \in BOOLEAN :
       /\ adding.pc = "insert"
       /\ IF failed
          THEN /\ error' = "Failed to add account"
               /\ addAccountReturn([adding EXCEPT !.faulty = TRUE], <<>>)
               /\ UNCHANGED <<accountsTable, accountsCreated>>
          ELSE \E data \in {<<[id |-> IdNames[accountsCreated + 1],
                              user_id |-> adding.user_id]>>} :
                 /\ accountsTable' = Append(accountsTable, data[1])
                 /\ accountsCreated' = accountsCreated + 1
                 /\ IF autoAssigns(adding, data)
                    THEN /\ addCalls' =
                              ReplaceCall(adding, [adding EXCEPT
                                                   !.pc = "select",
                                                   !.data = data])
                         /\ addReturn' = <<>>
                         /\ UNCHANGED hookVars
                    ELSE /\ addAccountReturn(adding, data)
                         /\ error' = error
  /\ UNCHANGED <<usersTable, deleteCalls, outsideAccountStore>>

\* the select of managed_accounts and role answers: up to the await of the
\* update, or the return
selectUserReturns ==
  /\ \E adding \in BagToSet(addCalls) : \E failed \in BOOLEAN :
       /\ adding.pc = "select"
       /\ \E userData \in {usersTable[adding.auth[1]]} :
            IF /\ ~failed
               /\ userData.role # "superadmin"
               /\ ~Includes(userData.managed_accounts, adding.data[1].id)
            THEN /\ addCalls' =
                      ReplaceCall(adding, [adding EXCEPT
                                           !.pc = "update",
                                           !.read = userData.managed_accounts])
                 /\ addReturn' = <<>>
                 /\ UNCHANGED hookVars
            ELSE /\ addAccountReturn([adding EXCEPT !.faulty = failed],
                                      adding.data)
                 /\ error' = error
  /\ UNCHANGED <<accountsTable, accountsCreated, usersTable, deleteCalls,
                 outsideAccountStore>>

\* the update of managed_accounts answers; its error is not looked at
assignReturns ==
  /\ \E adding \in BagToSet(addCalls) : \E failed \in BOOLEAN :
       /\ adding.pc = "update"
       /\ usersTable' =
            IF failed THEN usersTable
            ELSE [usersTable EXCEPT
                    ![adding.auth[1]].managed_accounts =
                       Append(adding.read, adding.data[1].id)]
       /\ addAccountReturn([adding EXCEPT !.faulty = failed], adding.data)
  /\ error' = error
  /\ UNCHANGED <<accountsTable, accountsCreated, deleteCalls,
                 outsideAccountStore>>

\* deleteAccount up to the await of the delete
deleteAccount ==
  /\ BagCardinality(deleteCalls) < MaxRequests
  /\ \E k \in 1..accountsCreated :
       deleteCalls' = deleteCalls (+) SetToBag({IdNames[k]})
  /\ loading' = TRUE
  /\ error' = NULL
  /\ addReturn' = <<>>
  /\ UNCHANGED <<accountsTable, accountsCreated, usersTable, addCalls,
                 outsideAccountStore>>

\* the delete answers
deleteAccountReturns ==
  /\ \E id \in BagToSet(deleteCalls) : \E failed \in BOOLEAN :
       /\ deleteCalls' = deleteCalls (-) SetToBag({id})
       /\ accountsTable' =
            IF failed THEN accountsTable
            ELSE SelectSeq(accountsTable, LAMBDA row : row.id # id)
       /\ error' = IF failed THEN "Failed to delete account" ELSE error
  /\ loading' = FALSE
  /\ addReturn' = <<>>
  /\ UNCHANGED <<accountsCreated, usersTable, addCalls, outsideAccountStore>>

----------------------------------------------------------------------------
(* useSupabase: addSalesData on the data store *)

\* the rows a batch is made of (the other columns are left out)
BatchRows ==
  {[account_id |-> IdNames[1], date |-> d, gross_commission |-> v] :
     d \in Days, v \in {5, 10}}

Batches == UNION {[1..n -> BatchRows] : n \in 1..MaxBatch}

SameKey(x, y) == x.account_id = y.account_id /\ x.date = y.date

\* The statement is rejected when two rows of the batch have the same key:
\* ON CONFLICT DO UPDATE cannot affect a row a second time.
KeyTwice(batch) ==
  \E i, j \in DOMAIN batch : i # j /\ SameKey(batch[i], batch[j])

\* an insert without onConflict: the row becomes a new row
InsertRow(stored, row) ==
  [table |-> Append(stored.table, Merge([id |-> stored.created + 1], row)),
   created |-> stored.created + 1]

\* onConflict: 'account_id,date', ignoreDuplicates: false, for one row: a
\* row whose key is in the table replaces the values of that row, another
\* row is inserted
UpsertRow(stored, row) ==
  IF \E i \in DOMAIN stored.table : SameKey(stored.table[i], row)
  THEN [table |-> [i \in DOMAIN stored.table |->
                     IF SameKey(stored.table[i], row)
                     THEN Merge(stored.table[i], row)
                     ELSE stored.table[i]],
        created |-> stored.created]
  ELSE [table |-> Append(stored.table,
                         Merge([id |-> stored.created + 1], row)),
        created |-> stored.created + 1]

\* .upsert(salesData, { onConflict: 'account_id,date', ignoreDuplicates:
\* false }) on the table and the number of ids given
RECURSIVE Upsert(_, _)
Upsert(stored, batch) ==
  IF batch = <<>> THEN stored
  ELSE Upsert(UpsertRow(stored, Head(batch)), Tail(batch))

\* addSalesData up to the await of the upsert
addSalesData ==
  /\ BagCardinality(ingestCalls) < MaxRequests
  /\ \E batch \in Batches :
       ingestCalls' = ingestCalls (+) SetToBag({batch})
  /\ loading' = TRUE
  /\ error' = NULL
  /\ UNCHANGED <<salesTable, salesCreated, lastAccepted, latestRows,
                 outsideSalesStore>>

\* the upsert answers: the rest of addSalesData
upsertReturns ==
  /\ \E batch \in BagToSet(ingestCalls) : \E failed \in BOOLEAN :
       /\ ingestCalls' = ingestCalls (-) SetToBag({batch})
       /\ IF failed \/ KeyTwice(batch)
          THEN /\ error' = "Failed to add sales data"
               /\ UNCHANGED <<salesTable, salesCreated, lastAccepted,
                              latestRows>>
          ELSE \E after \in {Upsert([table |-> salesTable,
                                      created |-> salesCreated], batch)} :
                 /\ salesTable' = after.table
                 /\ salesCreated' = after.created
                 /\ lastAccepted' = <<batch>>
                 /\ latestRows' =
                      {row \in latestRows :
                         \A i \in DOMAIN batch : ~SameKey(row, batch[i])}
                        \cup Range(batch)
                 /\ error' = error
  /\ loading' = FALSE
  /\ UNCHANGED outsideSalesStore

----------------------------------------------------------------------------
(* useSupabase: the loading flag shared by the requests of one instance *)

\* the functions IncentiveOverview starts together in Promise.all
LoadDataFunctions ==
  {"fetchAccounts", "fetchSalesData", "fetchUsers", "fetchIncentiveRules"}

\* the number of queries a function awaits one after the other
QueriesOf(fn) == IF fn = "fetchIncentiveRules" THEN 2 ELSE 1

\* the text of the catch block when err is no Error
FallbackMessage(fn) ==
  CASE fn = "fetchCategories" -> "Failed to fetch categories"
    [] fn = "fetchAccounts" -> "Failed to fetch accounts"
    [] fn = "fetchSalesData" -> "Failed to fetch sales data"
    [] fn = "fetchUsers" -> "Failed to fetch users"
    [] fn = "fetchIncentiveRules" -> "Failed to fetch incentive rules"

\* a started function: the query it awaits
HookRequest(fn) == [fn |-> fn, query |-> 1]

\* the start of a fetch function, up to the await of its first query
startsFetch(requests, fn) == requests (+) SetToBag({HookRequest(fn)})

\* fetchCategories is called: it runs up to its await
fetchCategories ==
  /\ CopiesIn(HookRequest("fetchCategories"), hookRequests) < MaxFetches
  /\ loading' = TRUE
  /\ error' = NULL
  /\ hookRequests' = startsFetch(hookRequests, "fetchCategories")
  /\ UNCHANGED <<loadDataCall, outsideHook>>

\* the effect of IncentiveOverview on mount: the four functions are called
\* one after the other, each running up to its await, before any answer
loadDataFetches ==
  /\ loadDataCall = "idle"
  /\ loading' = TRUE
  /\ error' = NULL
  /\ hookRequests' =
       startsFetch(startsFetch(startsFetch(startsFetch(hookRequests,
         "fetchAccounts"), "fetchSalesData"), "fetchUsers"),
         "fetchIncentiveRules")
  /\ loadDataCall' = "pending"
  /\ UNCHANGED outsideHook

\* loadData is past its Promise.all once none of its four functions is left
loadDataAfter(requests) ==
  IF /\ loadDataCall = "pending"
     /\ \A request \in BagToSet(requests) : request.fn \notin LoadDataFunctions
  THEN "done"
  ELSE loadDataCall

\* the query a function awaits has answered: the rest of the function up to
\* its next await or through catch and finally
queryReturns ==
  \E request \in BagToSet(hookRequests) :
    \E queryError \in {NULL, "E", FallbackMessage(request.fn)} :
      LET others == hookRequests (-) SetToBag({request})
      IN IF queryError = NULL /\ request.query < QueriesOf(request.fn)
         THEN /\ hookRequests' =
                   others (+)
                     SetToBag({[request EXCEPT !.query = request.query + 1]})
              /\ UNCHANGED <<loading, error, loadDataCall, outsideHook>>
         ELSE /\ hookRequests' = others
              /\ error' = IF queryError = NULL THEN error ELSE queryError
              /\ loading' = FALSE
              /\ loadDataCall' = loadDataAfter(others)
              /\ UNCHANGED outsideHook

----------------------------------------------------------------------------
(* useSupabase: updateIncentiveRule, query by query *)

\* the rule the page has stored before it is edited
StoredRules ==
  {rule \in RuleInputs :
     /\ rule.base_revenue_threshold = 0
     /\ rule.min_commission_threshold = 0
     /\ ~rule.is_active}

\* the updates the form sends
RuleUpdates ==
  {updates \in RuleInputs :
     /\ updates.min_commission_threshold = 10
     /\ updates.is_active
     /\ Len(updates.tiers) <= 1}

RuleErrors == {"E", "Failed to update incentive rule"}

\* .delete().eq('rule_id', id)
WithoutTiersOf(table, id) == SelectSeq(table, LAMBDA t : t.rule_id # id)

\* .update({...}).eq('id', id)
WithRuleUpdated(table, id, updates) ==
  [k \in DOMAIN table |->
     IF table[k].id = id THEN RuleRowOf(id, updates) ELSE table[k]]

\* what the call returns, with the tables as the call found them
RuleReturned(updating, failed) ==
  <<[failed |-> failed, id |-> updating.id,
     rulesBefore |-> updating.rulesBefore,
     tiersBefore |-> updating.tiersBefore]>>

\* updateIncentiveRule is called: it runs up to the await of the rule update
updateIncentiveRuleCalled ==
  /\ ruleCall = <<>>
  /\ \E k \in DOMAIN rulesTable :
     \E updates \in RuleUpdates :
     \E withTiers \in BOOLEAN :
       ruleCall' = <<[pc |-> "update", id |-> rulesTable[k].id,
                      updates |-> updates, withTiers |-> withTiers,
                      rulesBefore |-> rulesTable,
                      tiersBefore |-> tiersTable]>>
  /\ loading' = TRUE
  /\ error' = NULL
  /\ ruleReturn' = <<>>
  /\ UNCHANGED <<dbRuleVars, outsideRuleUpdate>>

\* catch and finally: the call returns null
ruleUpdateFails(updating, message) ==
  /\ error' = message
  /\ loading' = FALSE
  /\ ruleCall' = <<>>
  /\ ruleReturn' = RuleReturned(updating, TRUE)

\* return {...ruleData, tiers} and finally
ruleUpdateSucceeds(updating) ==
  /\ error' = error
  /\ loading' = FALSE
  /\ ruleCall' = <<>>
  /\ ruleReturn' = RuleReturned(updating, FALSE)

\* the update of the rule row has answered
ruleRowUpdateReturns ==
  /\ ruleCall # <<>>
  /\ ruleCall[1].pc = "update"
  /\ \E ruleError \in {NULL} \cup RuleErrors :
       IF ruleError # NULL
       THEN /\ ruleUpdateFails(ruleCall[1], ruleError)
            /\ UNCHANGED dbRuleVars
       ELSE /\ rulesTable' =
                 WithRuleUpdated(rulesTable, ruleCall[1].id,
                                 ruleCall[1].updates)
            /\ ruleCall' =
                 <<[ruleCall[1] EXCEPT
                      !.pc = IF ruleCall[1].withTiers THEN "delete"
                             ELSE "select"]>>
            /\ ruleReturn' = <<>>
            /\ UNCHANGED <<tiersTable, loading, error>>
  /\ UNCHANGED outsideRuleUpdate

\* the delete of the old tiers has answered; its result is not looked at
tiersDeleteReturns ==
  /\ ruleCall # <<>>
  /\ ruleCall[1].pc = "delete"
  /\ \E deleteError \in BOOLEAN :
       \* the stored tiers of a rule stay within the bound of the model
       /\ deleteError =>
            Len(TiersOfRule(tiersTable, ruleCall[1].id))
              + Len(ruleCall[1].updates.tiers) <= MaxTiers
       /\ tiersTable' = IF deleteError THEN tiersTable
                        ELSE WithoutTiersOf(tiersTable, ruleCall[1].id)
  /\ ruleCall' =
       <<[ruleCall[1] EXCEPT
            !.pc = IF Len(ruleCall[1].updates.tiers) > 0 THEN "insert"
                   ELSE "select"]>>
  /\ ruleReturn' = <<>>
  /\ UNCHANGED <<rulesTable, loading, error, outsideRuleUpdate>>

\* the insert of the new tiers has answered
tiersInsertReturns ==
  /\ ruleCall # <<>>
  /\ ruleCall[1].pc = "insert"
  /\ \E tiersError \in {NULL} \cup RuleErrors :
       IF tiersError # NULL
       THEN /\ ruleUpdateFails(ruleCall[1], tiersError)
            /\ UNCHANGED dbRuleVars
       ELSE /\ tiersTable' =
                 tiersTable \o
                   TierRowsOf(ruleCall[1].id, ruleCall[1].updates.tiers)
            /\ ruleUpdateSucceeds(ruleCall[1])
            /\ UNCHANGED rulesTable
  /\ UNCHANGED outsideRuleUpdate

\* the select of the stored tiers has answered; its error is not looked at
tiersSelectReturns ==
  /\ ruleCall # <<>>
  /\ ruleCall[1].pc = "select"
  /\ ruleUpdateSucceeds(ruleCall[1])
  /\ UNCHANGED <<dbRuleVars, outsideRuleUpdate>>

----------------------------------------------------------------------------
(* Specifications *)

\* state of a component that is not mounted
AmIdle ==
  /\ searchTerm = <<>>
  /\ statusFilter = "all"
  /\ paymentFilter = "all"
  /\ categoryFilter = "all"

RpIdle ==
  /\ salesData = <<>>
  /\ selectedAccount = "all"
  /\ dateFilter = [preset |-> "all", startDate |-> NoDate, endDate |-> NoDate]
  /\ now = [day |-> MaxDay, pastMidnight |-> FALSE]
  /\ download = <<>>

IoIdle ==
  /\ rulesTable = <<>>
  /\ tiersTable = <<>>
  /\ page = "rules"
  /\ isLoading = TRUE
  /\ incentiveRules = <<>>
  /\ users = <<>>
  /\ selectedMonth = getMonth(MaxDay) + 1
  /\ selectedYear = getFullYear(MaxDay)

PeIdle ==
  /\ isEditing = FALSE
  /\ profileData = profileDataOf(ProfileUser)
  /\ storedUser = ProfileUser
  /\ profileUpdate = <<>>

FaIdle ==
  /\ filesTable = <<>>
  /\ filesCreated = 0
  /\ fmShowModal = FALSE
  /\ editingFile = <<>>
  /\ fmFormData = EmptyFormData
  /\ fmIsSaving = FALSE
  /\ fmSaveResult = <<>>
  /\ autoCloseTimers = <<>>
  /\ fileRequests = EmptyBag
  /\ lastReturn = <<>>
  /\ pinEpisode = <<>>

AcIdle ==
  /\ amShowModal = FALSE
  /\ editingAccount = <<>>
  /\ showCategoryManagement = FALSE
  /\ editingField = <<>>
  /\ amFormData = EmptyAccountForm(<<>>)
  /\ lastCall = <<>>

StIdle ==
  /\ accountsTable = <<>>
  /\ accountsCreated = 0
  /\ usersTable = StoredUsers
  /\ addCalls = EmptyBag
  /\ deleteCalls = EmptyBag
  /\ addReturn = <<>>

SdIdle ==
  /\ salesTable = <<>>
  /\ salesCreated = 0
  /\ ingestCalls = EmptyBag
  /\ lastAccepted = <<>>
  /\ latestRows = {}

HkIdle ==
  /\ hookRequests = EmptyBag
  /\ loadDataCall = "idle"

RuIdle ==
  /\ ruleCall = <<>>
  /\ ruleReturn = <<>>

HookIdle ==
  /\ loading = FALSE
  /\ error = NULL

FmIdle ==
  /\ filesQuery = "idle"
  /\ files = <<>>
  /\ fmIsLoading = TRUE
  /\ loadError = NULL
  /\ fmSearchTerm = <<>>
  /\ fmCategoryFilter = "all"
  /\ viewMode = "cards"

PfIdle ==
  /\ showPasswordForm = FALSE
  /\ passwordData = EmptyPasswordData
  /\ isSaving = FALSE
  /\ saveResult = <<>>
  /\ clearTimers = 0
  /\ pc = "idle"
  /\ call = NoCall
  /\ authCalls = <<>>
  /\ changePasswordResult = "none"
  /\ storedPassword = "password"

AccountsInit ==
  /\ accounts \in AccountLists
  /\ currentUser \in CurrentUsers
  /\ searchTerm = <<>>
  /\ statusFilter = "all"
  /\ paymentFilter \in {"all", "utamakan"}   \* initialPaymentFilter || 'all'
  /\ categoryFilter = "all"
  /\ RpIdle
  /\ IoIdle
  /\ HookIdle
  /\ FmIdle
  /\ PfIdle
  /\ PeIdle
  /\ FaIdle
  /\ AcIdle
  /\ StIdle
  /\ SdIdle
  /\ HkIdle
  /\ RuIdle

setSearchTerm ==
  /\ \E t \in SearchTerms : searchTerm' = t
  /\ UNCHANGED <<accounts, currentUser, statusFilter, paymentFilter,
                 categoryFilter, outsideAccounts>>

setStatusFilter ==
  /\ \E f \in StatusFilters : statusFilter' = f
  /\ UNCHANGED <<accounts, currentUser, searchTerm, paymentFilter,
                 categoryFilter, outsideAccounts>>

setPaymentFilter ==
  /\ \E f \in PaymentFilters : paymentFilter' = f
  /\ UNCHANGED <<accounts, currentUser, searchTerm, statusFilter,
                 categoryFilter, outsideAccounts>>

\* window event 'setPaymentFilter' sent by the Dashboard
handleSetPaymentFilter ==
  /\ \E detail \in PaymentFilters \cup {"unknown"} : paymentFilter' = detail
  /\ UNCHANGED <<accounts, currentUser, searchTerm, statusFilter,
                 categoryFilter, outsideAccounts>>

setCategoryFilter ==
  /\ \E f \in CategoryFilters : categoryFilter' = f
  /\ UNCHANGED <<accounts, currentUser, searchTerm, statusFilter,
                 paymentFilter, outsideAccounts>>

AccountsNext ==
  \/ setSearchTerm
  \/ setStatusFilter
  \/ setPaymentFilter
  \/ handleSetPaymentFilter
  \/ setCategoryFilter

SpecAccounts == AccountsInit /\ [][AccountsNext]_vars

\* the account list of the reports page: the first k accounts of the store
ReportsAccountLists ==
  {[i \in 1..k |-> AccountRow(IdNames[i])] : k \in 0..MaxAccounts}

ReportsInit ==
  /\ accounts \in ReportsAccountLists
  /\ currentUser \in CurrentUsers
  /\ salesData \in SalesLists
  /\ selectedAccount = "all"
  /\ dateFilter = [preset |-> "30", startDate |-> NoDate, endDate |-> NoDate]
  /\ now \in {[day |-> MaxDay + 6, pastMidnight |-> b] : b \in BOOLEAN}
  /\ download = <<>>
  /\ AmIdle
  /\ IoIdle
  /\ HookIdle
  /\ FmIdle
  /\ PfIdle
  /\ PeIdle
  /\ FaIdle
  /\ AcIdle
  /\ StIdle
  /\ SdIdle
  /\ HkIdle
  /\ RuIdle

ReportsNext ==
  \/ handleAccountSelect
  \/ handleDateFilterChange
  \/ exportToCSV

SpecReports == ReportsInit /\ [][ReportsNext]_vars

IncentiveInit ==
  /\ accounts = <<>>
  /\ salesData = <<>>
  /\ now = [day |-> MaxDay, pastMidnight |-> TRUE]
  /\ currentUser = <<>>
  /\ selectedAccount = "all"
  /\ dateFilter = [preset |-> "all", startDate |-> NoDate, endDate |-> NoDate]
  /\ download = <<>>
  /\ AmIdle
  /\ IoIdle
  /\ HookIdle
  /\ FmIdle
  /\ PfIdle
  /\ PeIdle
  /\ FaIdle
  /\ AcIdle
  /\ StIdle
  /\ SdIdle
  /\ HkIdle
  /\ RuIdle

IncentiveNext ==
  \/ addIncentiveRule
  \/ updateIncentiveRule
  \/ openOverview
  \/ loadData
  \/ handleMonthSelect
  \/ handleYearSelect
  \/ closeOverview

SpecIncentive == IncentiveInit /\ [][IncentiveNext]_vars

FilesInit ==
  /\ accounts = <<>>
  /\ currentUser = <<>>
  /\ AmIdle
  /\ RpIdle
  /\ IoIdle
  /\ HookIdle
  /\ FmIdle
  /\ PfIdle
  /\ PeIdle
  /\ FaIdle
  /\ AcIdle
  /\ StIdle
  /\ SdIdle
  /\ HkIdle
  /\ RuIdle

FilesNext ==
  \/ loadFiles
  \/ fetchFilesReturns
  \/ setFmSearchTerm
  \/ setFmCategoryFilter
  \/ setViewMode
  \/ leaveFiles

SpecFiles == FilesInit /\ [][FilesNext]_vars

ProfileInit ==
  /\ accounts = <<>>
  /\ currentUser = <<>>
  /\ AmIdle
  /\ RpIdle
  /\ IoIdle
  /\ HookIdle
  /\ FmIdle
  /\ PfIdle
  /\ PeIdle
  /\ FaIdle
  /\ AcIdle
  /\ StIdle
  /\ SdIdle
  /\ HkIdle
  /\ RuIdle

ProfileNext ==
  \/ openPasswordForm
  \/ handlePasswordChange
  \/ cancelPasswordForm
  \/ handlePasswordSubmit
  \/ getUserReturns
  \/ signInReturns
  \/ updateUserReturns
  \/ clearSaveResult

SpecProfile == ProfileInit /\ [][ProfileNext]_vars

ProfileEditInit ==
  /\ accounts = <<>>
  /\ \E user \in ProfileUsers :
       /\ currentUser = <<user>>
       /\ storedUser = user
       /\ profileData = profileDataOf(user)
  /\ isEditing = FALSE
  /\ profileUpdate = <<>>
  /\ AmIdle
  /\ RpIdle
  /\ IoIdle
  /\ HookIdle
  /\ FmIdle
  /\ PfIdle
  /\ FaIdle
  /\ AcIdle
  /\ StIdle
  /\ SdIdle
  /\ HkIdle
  /\ RuIdle

ProfileEditNext ==
  \/ startEditing
  \/ handleInputChange
  \/ cancelEditing
  \/ handleSave
  \/ updateProfileReturns
  \/ clearSaveResult

SpecProfileEdit == ProfileEditInit /\ [][ProfileEditNext]_vars

InitialFile ==
  StoredFile(FileIdNames[1],
             [name |-> "A", category_id |-> "cat1", spreadsheet_url |-> "U",
              description |-> "", is_pinned |-> FALSE, created_by |-> "u2"])

\* FileManagement with its list loaded, for a user and for a superadmin
FileAdminInit ==
  /\ accounts = <<>>
  /\ currentUser \in {<<u>> : u \in {r \in UserRecords :
                                      r.id = "u1" /\ r.managed_accounts = <<>>}}
  /\ filesTable = <<InitialFile>>
  /\ filesCreated = 1
  /\ files = filesTable
  /\ filesQuery = "ok"
  /\ fmIsLoading = FALSE
  /\ loadError = NULL
  /\ fmSearchTerm = <<>>
  /\ fmCategoryFilter = "all"
  /\ viewMode = "cards"
  /\ fmShowModal = FALSE
  /\ editingFile = <<>>
  /\ fmFormData = EmptyFormData
  /\ fmIsSaving = FALSE
  /\ fmSaveResult = <<>>
  /\ autoCloseTimers = <<>>
  /\ fileRequests = EmptyBag
  /\ lastReturn = <<>>
  /\ pinEpisode = <<>>
  /\ AmIdle
  /\ RpIdle
  /\ IoIdle
  /\ HookIdle
  /\ PfIdle
  /\ PeIdle
  /\ AcIdle
  /\ StIdle
  /\ SdIdle
  /\ HkIdle
  /\ RuIdle

FileAdminNext ==
  \/ handleAdd
  \/ handleEdit
  \/ setFormData
  \/ closeModal
  \/ autoClose
  \/ handleSubmit
  \/ handleDelete
  \/ handleTogglePin
  \/ fileRequestReturns
  \/ switchViewMode

SpecFileAdmin == FileAdminInit /\ [][FileAdminNext]_vars

\* AccountManagement mounted for a user or a superadmin
AccountActionsInit ==
  /\ accounts \in AccountLists
  /\ currentUser \in CurrentUsers
  /\ AmIdle
  /\ amShowModal = FALSE
  /\ editingAccount = <<>>
  /\ showCategoryManagement = FALSE
  /\ editingField = <<>>
  /\ amFormData = EmptyAccountForm(currentUser)
  /\ lastCall = <<>>
  /\ RpIdle
  /\ IoIdle
  /\ HookIdle
  /\ FmIdle
  /\ PfIdle
  /\ PeIdle
  /\ FaIdle
  /\ StIdle
  /\ SdIdle
  /\ HkIdle
  /\ RuIdle

AccountActionsNext ==
  \/ openCategoryManagement
  \/ closeCategoryManagement
  \/ categoryCall
  \/ amHandleAdd
  \/ amHandleEdit
  \/ amSetFormData
  \/ amCloseModal
  \/ amHandleSubmit
  \/ startInlineEdit
  \/ cancelInlineEdit
  \/ handleInlineEdit
  \/ deleteAccountClick

SpecAccountActions == AccountActionsInit /\ [][AccountActionsNext]_vars

AccountStoreInit ==
  /\ accounts = <<>>
  /\ currentUser = <<>>
  /\ StIdle
  /\ AmIdle
  /\ RpIdle
  /\ IoIdle
  /\ HookIdle
  /\ FmIdle
  /\ PfIdle
  /\ PeIdle
  /\ FaIdle
  /\ AcIdle
  /\ SdIdle
  /\ HkIdle
  /\ RuIdle

AccountStoreNext ==
  \/ addAccount
  \/ authGetUserReturns
  \/ insertAccountReturns
  \/ selectUserReturns
  \/ assignReturns
  \/ deleteAccount
  \/ deleteAccountReturns

SpecAccountStore == AccountStoreInit /\ [][AccountStoreNext]_vars

SalesStoreInit ==
  /\ accounts = <<>>
  /\ currentUser = <<>>
  /\ SdIdle
  /\ AmIdle
  /\ RpIdle
  /\ IoIdle
  /\ HookIdle
  /\ FmIdle
  /\ PfIdle
  /\ PeIdle
  /\ FaIdle
  /\ AcIdle
  /\ StIdle
  /\ HkIdle
  /\ RuIdle

SalesStoreNext ==
  \/ addSalesData
  \/ upsertReturns

SpecSalesStore == SalesStoreInit /\ [][SalesStoreNext]_vars

HookInit ==
  /\ accounts = <<>>
  /\ currentUser = <<>>
  /\ HookIdle
  /\ HkIdle
  /\ AmIdle
  /\ RpIdle
  /\ IoIdle
  /\ FmIdle
  /\ PfIdle
  /\ PeIdle
  /\ FaIdle
  /\ AcIdle
  /\ StIdle
  /\ SdIdle
  /\ RuIdle

HookNext ==
  \/ fetchCategories
  \/ loadDataFetches
  \/ queryReturns

SpecHook == HookInit /\ [][HookNext]_vars

RuleUpdateInit ==
  /\ accounts = <<>>
  /\ currentUser = <<>>
  /\ \E rule \in StoredRules :
       /\ rulesTable = <<RuleRowOf("r1", rule)>>
       /\ tiersTable = TierRowsOf("r1", rule.tiers)
  /\ page = "rules"
  /\ isLoading = TRUE
  /\ incentiveRules = <<>>
  /\ users = <<>>
  /\ selectedMonth = getMonth(MaxDay) + 1
  /\ selectedYear = getFullYear(MaxDay)
  /\ HookIdle
  /\ RuIdle
  /\ AmIdle
  /\ RpIdle
  /\ FmIdle
  /\ PfIdle
  /\ PeIdle
  /\ FaIdle
  /\ AcIdle
  /\ StIdle
  /\ SdIdle
  /\ HkIdle

RuleUpdateNext ==
  \/ updateIncentiveRuleCalled
  \/ ruleRowUpdateReturns
  \/ tiersDeleteReturns
  \/ tiersInsertReturns
  \/ tiersSelectReturns

SpecRuleUpdate == RuleUpdateInit /\ [][RuleUpdateNext]_vars

----------------------------------------------------------------------------
(* Claim C1 *)

PositionOf(list, x) == CHOOSE i \in DOMAIN list : list[i] = x

\* view is list restricted to the entries that satisfy Keep, in list order
IsSelectionOf(view, list, Keep(_)) ==
  /\ Range(view) = {a \in Range(list) : Keep(a)}
  /\ Len(view) = Cardinality(Range(view))
  /\ \A i, j \in DOMAIN view :
       i < j => PositionOf(list, view[i]) < PositionOf(list, view[j])

IsManaged(account) ==
  /\ currentUser # <<>>
  /\ account.id \in Range(currentUser[1].managed_accounts)

IsRoleVisibleList(view) ==
  /\ currentUser = <<>> => view = <<>>
  /\ (currentUser # <<>> /\ currentUser[1].role = "superadmin")
       => view = accounts
  /\ (currentUser # <<>> /\ currentUser[1].role # "superadmin")
       => IsSelectionOf(view, accounts, IsManaged)

\* C1: the role-visible account list of AccountManagement and of Reports is
\* the whole list for a superadmin, exactly the accounts whose id is in
\* managed_accounts for any other user and empty without a user; whatever
\* search, status, payment and category filters are set, every account
\* displayed to a non-superadmin has its id in managed_accounts.
C1_RoleVisibleAccounts ==
  /\ IsRoleVisibleList(filteredAccountsByRole)
  /\ IsRoleVisibleList(ReportsFilteredAccountsByRole)
  /\ (currentUser = <<>> \/ currentUser[1].role # "superadmin")
       => \A i \in DOMAIN filteredAccounts : IsManaged(filteredAccounts[i])

\* a non-superadmin sees one account and not another account that passes
\* the filters, after the payment filter event and a search
C1_Witness ==
  /\ currentUser # <<>>
  /\ currentUser[1].role = "user"
  /\ searchTerm # <<>>
  /\ paymentFilter # "all"
  /\ filteredAccounts # <<>>
  /\ Len(filteredAccountsByRole) < Len(accounts)
  /\ \E i \in DOMAIN accounts :
       /\ ~IsManaged(accounts[i])
       /\ matchesSearch(accounts[i])

----------------------------------------------------------------------------
(* Claim C2 *)

IsManagedRow(row) ==
  /\ currentUser # <<>>
  /\ row.account_id \in Range(currentUser[1].managed_accounts)

InsertAt(list, k, x) ==
  SubSeq(list, 1, k) \o <<x>> \o SubSeq(list, k + 1, Len(list))

RemoveAt(list, k) == SubSeq(list, 1, k - 1) \o SubSeq(list, k + 1, Len(list))

\* Data sets that have the same rows of managed accounts as salesData, in
\* the same order: salesData without its other rows, with one of them
\* removed, and with one more such row at any position.  Any two data sets
\* that agree on the managed rows agree with the first of these.
AgreeingDataSets ==
  {SelectSeq(salesData, IsManagedRow)}
    \cup {RemoveAt(salesData, k) :
            k \in {i \in DOMAIN salesData : ~IsManagedRow(salesData[i])}}
    \cup {InsertAt(salesData, k, row) :
            k \in 0..Len(salesData),
            row \in {r \in SaleRows : ~IsManagedRow(r)}}

\* what the reports page shows and exports for a data set
ReportOf(data) ==
  CHOOSE report \in
    {[metrics |-> reportMetricsOf(rows),
      accumulated |-> accumulatedDataOf(rows),
      csv |-> csvRowsOf(accumulatedDataOf(rows))] :
       rows \in {filteredDataOf(data)}} : TRUE

\* C2: for a non-superadmin user the summary metrics, the accumulated rows
\* and the exported CSV are the same for any two sales data sets that agree
\* on the rows of managed accounts, under every account selection and date
\* filter.
C2_UnmanagedSalesDoNotShow ==
  (currentUser # <<>> /\ currentUser[1].role # "superadmin")
    => \A report \in {ReportOf(salesData)} :
         \A other \in AgreeingDataSets : ReportOf(other) = report

\* a user who manages some account looks at data holding rows of a managed
\* and of an unmanaged account, with an account selected and a date filter
C2_Witness ==
  /\ currentUser # <<>>
  /\ currentUser[1].role = "user"
  /\ \E i, j \in DOMAIN salesData :
       IsManagedRow(salesData[i]) /\ ~IsManagedRow(salesData[j])
  /\ filteredData # <<>>
  /\ selectedAccount # "all"
  /\ dateFilter.preset = "7"

----------------------------------------------------------------------------
(* Claim C8 *)

\* C8: the exported file is the header row followed by one row per
\* accumulated entry, in the order of the on-screen table (descending
\* commission), each row carrying the clicks, orders, commission, revenue,
\* products sold, day count, commission % and conversion % of its table row,
\* which are the totals of the account's filtered sales rows.
C8_CsvMatchesTable ==
  download # <<>> =>
    \A shownData \in {filteredData} :
    \A entries \in {accumulatedDataOf(shownData)} :
    \A table \in {[i \in DOMAIN entries |-> TableRowOf(entries[i])]} :
    /\ Len(download) = 1 + Len(table)
    /\ download[1] = headers
    /\ Cardinality({shownData[i].account_id : i \in DOMAIN shownData})
         = Len(download) - 1
    /\ \A i \in DOMAIN table :
         \A sales \in {SelectSeq(shownData, LAMBDA r :
                                   r.account_id = entries[i].account_id)} :
         LET row == download[i + 1]
             shown == table[i]
         IN /\ row[4] = shown.data_count
            /\ row[5] = shown.clicks
            /\ row[6] = shown.orders
            /\ formatCurrency(row[7]) = shown.gross_commission
            /\ formatCurrency(row[8]) = shown.total_purchases
            /\ row[9] = shown.commission_rate
            /\ row[10] = shown.products_sold
            /\ row[11] = shown.conv_rate
            /\ row[4] = Len(sales)
            /\ row[5] = SumOver(sales, LAMBDA r : r.clicks)
            /\ row[6] = SumOver(sales, LAMBDA r : r.orders)
            /\ row[7] = SumOver(sales, LAMBDA r : r.gross_commission)
            /\ row[8] = SumOver(sales, LAMBDA r : r.total_purchases)
            /\ row[10] = SumOver(sales, LAMBDA r : r.products_sold)
    /\ \A i, j \in 2..Len(download) : i < j => download[i][7] >= download[j][7]

\* an export of two accounts that the sort had to reorder, one of them with
\* clicks, under a date filter
C8_Witness ==
  /\ Len(download) = 3
  /\ download[2][7] > download[3][7]
  /\ download[2][5] > 0
  /\ AccumulateInto(<<>>, filteredData) # accumulatedData
  /\ dateFilter.preset = "custom"
  /\ Len(filteredData) < Len(salesData)

----------------------------------------------------------------------------
(* C3 *)

OverviewShown == page = "overview" /\ ~isLoading

\* C3: calculateTieredIncentive returns 0 whenever the revenue is below the
\* rule's base_revenue_threshold, whatever the rule and its tier list (also
\* in the marginal version), and an Incentive Amount cell of the overview is
\* '-' exactly when there is no active rule or the row's total revenue is
\* below the active rule's base_revenue_threshold.
C3_BelowBaseNoIncentive ==
  /\ \A i \in DOMAIN incentiveRules : \A revenue \in Money :
       revenue < incentiveRules[i].base_revenue_threshold =>
         /\ calculateTieredIncentive(revenue, incentiveRules[i]) = Returns(0)
         /\ \A category \in {"standard", "high"} :
              calculateTieredIncentiveMarginal(revenue, incentiveRules[i],
                                               category) = 0
  /\ \A rows \in {userAccountsOverview} : \A i \in DOMAIN rows :
       /\ IncentiveAmountCell(rows[i]).kind = "-"
            <=> \/ activeRule = <<>>
                \/ rows[i].total_revenue
                     < activeRule[1].base_revenue_threshold
       /\ IncentiveAmountCell(rows[i]).kind = "amount" =>
            IncentiveAmountCell(rows[i]).amount =
              calculateTieredIncentive(rows[i].total_revenue,
                                       activeRule[1]).value
  /\ activeRule = <<>> => userAccountsOverview = <<>>

\* an overview with a row with an amount and a row below the base threshold,
\* shown as '-' although its revenue is positive and the rule has tiers
C3_Witness ==
  /\ OverviewShown
  /\ \E i, j \in DOMAIN userAccountsOverview :
       /\ IncentiveAmountCell(userAccountsOverview[i]).kind = "amount"
       /\ IncentiveAmountCell(userAccountsOverview[i]).amount > 0
       /\ IncentiveAmountCell(userAccountsOverview[j]).kind = "-"
       /\ userAccountsOverview[j].total_revenue > 0

----------------------------------------------------------------------------
(* C4 *)

PermutedTiers(rule) ==
  {[rule EXCEPT !.tiers = [i \in DOMAIN rule.tiers |-> rule.tiers[f[i]]]] :
     f \in Permutations(DOMAIN rule.tiers)}

\* C4: for a revenue at or above the base threshold and a rule with at least
\* one tier, the tier whose rate calculateTieredIncentive applies has the
\* greatest revenue_threshold that is at most the revenue (so its threshold
\* never exceeds the revenue), the result is revenue * rate / 100, and the
\* result does not depend on the order of the tiers.
C4_GreatestTierAtOrBelowRevenue ==
  \A i \in DOMAIN incentiveRules : \A revenue \in Money :
    \A rule \in {incentiveRules[i]} :
      (revenue >= rule.base_revenue_threshold /\ rule.tiers # <<>>) =>
        \A applied \in {applicableTierOf(revenue, rule)} :
          /\ applied.revenue_threshold <= revenue
          /\ \A k \in DOMAIN rule.tiers :
               rule.tiers[k].revenue_threshold <= revenue =>
                 rule.tiers[k].revenue_threshold <= applied.revenue_threshold
          /\ calculateTieredIncentive(revenue, rule)
               = Returns((revenue * applied.incentive_rate) \div 100)
          /\ \A other \in PermutedTiers(rule) :
               calculateTieredIncentive(revenue, other)
                 = calculateTieredIncentive(revenue, rule)

----------------------------------------------------------------------------
(* C5 *)

\* C5: calculateTieredIncentive returns a number and never throws, for every
\* revenue and every active rule that addIncentiveRule or updateIncentiveRule
\* stored, a rule without tiers included.
C5_NeverThrows ==
  \A i \in DOMAIN incentiveRules : \A revenue \in Money :
    incentiveRules[i].is_active =>
      ~calculateTieredIncentive(revenue, incentiveRules[i]).throws

----------------------------------------------------------------------------
(* C6 *)

\* C6: when the query behind fetchFiles has failed, the load of
\* FileManagement ends with isLoading false and loadError a message, the
\* 'Error Loading Files' screen, not with an empty list and no error.
C6_FetchFailureSurfaced ==
  filesQuery = "failed" =>
    /\ ~fmIsLoading
    /\ loadError # NULL
    /\ FilesScreen = "Error Loading Files"

----------------------------------------------------------------------------
(* C7 *)

\* C7: the step in which a changePassword call ends with false (no user,
\* wrong current password or rejected update) leaves Profile with isSaving
\* false and saveResult a failure that carries a message.
C7_FailedChangeSurfaced ==
  [][(pc # "idle" /\ pc' = "idle" /\ changePasswordResult' = "false") =>
       /\ ~isSaving'
       /\ saveResult' # <<>>
       /\ ~saveResult'[1].success
       /\ saveResult'[1].message # ""]_vars

----------------------------------------------------------------------------
(* C9 *)

\* C9: a submit of the password form starts changePassword, with the current
\* and the new password of the form, only if the new password equals its
\* confirmation and has at least 8 characters; every other submit sets
\* saveResult to the failure of the first check that fails, issues no auth
\* call and changes neither isSaving nor the fields nor the stored password.
C9_SubmitValidates ==
  /\ [][(pc = "idle" /\ pc' # "idle") =>
          /\ passwordData.newPassword = passwordData.confirmPassword
          /\ Len(passwordData.newPassword) >= 8
          /\ call' = [currentPassword |-> passwordData.currentPassword,
                      newPassword |-> passwordData.newPassword]]_vars
  /\ [][handlePasswordSubmit =>
          IF /\ passwordData.newPassword = passwordData.confirmPassword
             /\ Len(passwordData.newPassword) >= 8
          THEN pc' = "getUser" /\ isSaving'
          ELSE /\ saveResult' =
                    Failure(IF passwordData.newPassword
                                 # passwordData.confirmPassword
                            THEN "New passwords do not match"
                            ELSE "Password must be at least 8 characters long")
               /\ pc' = "idle"
               /\ authCalls' = authCalls
               /\ isSaving' = isSaving
               /\ passwordData' = passwordData
               /\ storedPassword' = storedPassword
               /\ loading' = loading]_vars

\* a form whose matching new password of 7 characters was refused, with no
\* auth call made so far
C9_Witness ==
  /\ showPasswordForm
  /\ passwordData.newPassword = "passwor"
  /\ passwordData.confirmPassword = "passwor"
  /\ saveResult = Failure("Password must be at least 8 characters long")
  /\ ~isSaving
  /\ pc = "idle"
  /\ authCalls = <<>>

----------------------------------------------------------------------------
(* C10 *)

HasUpdateUser(calls) == \E k \in DOMAIN calls : calls[k].op = "updateUser"

\* C10: within a changePassword call, updateUser with the new password is
\* issued only as the third auth call, after getUser answered with a user and
\* signInWithPassword with that user's email and the supplied current
\* password succeeded; a call in which getUser or signInWithPassword failed
\* has issued no updateUser and returned false, and the stored password
\* changes only in the step in which updateUser succeeds.
C10_UpdateOnlyAfterVerification ==
  /\ [](\A k \in DOMAIN authCalls :
          authCalls[k].op = "updateUser" =>
            /\ k = 3
            /\ authCalls[1] =
                 [op |-> "getUser", arg |-> NULL, status |-> "ok"]
            /\ authCalls[2] =
                 [op |-> "signInWithPassword",
                  arg |-> [email |-> Email,
                           password |-> call.currentPassword],
                  status |-> "ok"]
            /\ authCalls[3].arg = [password |-> call.newPassword])
  /\ []((\E k \in DOMAIN authCalls :
           /\ authCalls[k].op # "updateUser"
           /\ authCalls[k].status = "error") =>
          /\ changePasswordResult = "false"
          /\ ~HasUpdateUser(authCalls))
  /\ [][storedPassword' # storedPassword =>
          /\ pc = "updateUser"
          /\ storedPassword' = call.newPassword
          /\ changePasswordResult' = "true"]_vars

\* a call that failed at signInWithPassword, after an earlier call had
\* changed the stored password
C10_Witness ==
  /\ storedPassword = "password2"
  /\ pc = "idle"
  /\ changePasswordResult = "false"
  /\ Len(authCalls) = 2
  /\ authCalls[2].status = "error"
  /\ call.currentPassword = "password"

----------------------------------------------------------------------------
(* C11 *)

ProtectedFields == {"email", "role", "company", "managed_accounts"}

\* C11: the update that handleSave sends is for currentUser.id and holds
\* exactly name, phone, address and bio of the form, an empty phone, address
\* or bio as null; no step changes email, role, company or managed_accounts
\* of the stored user or of currentUser.
C11_SaveSendsOnlyEditableFields ==
  /\ [](profileUpdate # <<>> =>
          /\ profileUpdate[1].userId = currentUser[1].id
          /\ DOMAIN profileUpdate[1].fields = EditableFields
          /\ profileUpdate[1].fields.name = profileData.name
          /\ \A f \in EditableFields \ {"name"} :
               profileUpdate[1].fields[f] =
                 IF profileData[f] = "" THEN NULL ELSE profileData[f])
  /\ [][\A f \in ProtectedFields :
          /\ storedUser'[f] = storedUser[f]
          /\ currentUser'[1][f] = currentUser[1][f]]_vars

\* a saved profile: the stored name was replaced, the emptied phone is stored
\* as null, and the form was opened again and changed after the save
C11_Witness ==
  /\ storedUser.id = "u2"
  /\ storedUser.name = "A"
  /\ storedUser.phone = NULL
  /\ storedUser.bio = "A"
  /\ currentUser[1].name = "A"
  /\ isEditing
  /\ profileData.name = ""
  /\ profileUpdate = <<>>

----------------------------------------------------------------------------
(* Claim C12 *)

\* C12: a user whose role is not superadmin never causes a call of addFile,
\* updateFile or deleteFile: no such call is pending or has just been
\* answered, table files keeps its rows, and the add/edit modal is not open.
C12_OnlySuperadminChangesFiles ==
  currentUser[1].role # "superadmin" =>
    /\ fileRequests = EmptyBag
    /\ lastReturn = <<>>
    /\ filesTable = <<InitialFile>>
    /\ files = <<InitialFile>>
    /\ ~fmShowModal

\* a user who is not superadmin has used the file list
C12_Witness ==
  /\ currentUser[1].role = "user"
  /\ FilesScreen = "File Management"
  /\ viewMode = "list"
  /\ files = <<InitialFile>>

----------------------------------------------------------------------------
(* Claim C18 *)

\* C18: a step that closes the modal is either the user's X or Cancel (no
\* timeout is consumed) or the timeout of a save submitted from the opening
\* of the modal that is shown: a timeout whose modal has been closed since
\* never closes a modal.
C18_AutoCloseOnlyOwnModal ==
  [][(fmShowModal /\ ~fmShowModal') =>
       \/ Len(autoCloseTimers') = Len(autoCloseTimers)
       \/ ~Head(autoCloseTimers)]_vars

----------------------------------------------------------------------------
(* Claim C19 *)

\* C19: when the call of handleSubmit is answered with null, files is
\* unchanged, saveResult is a failure with a message, the modal, the form
\* and editingFile are as they were, no timeout is scheduled and isSaving is
\* false; when it is answered with a row, an add puts exactly that new row
\* in front of files and an update replaces exactly the entries of the
\* edited id by the stored row.
C19_SubmitOutcome ==
  [][(lastReturn' # <<>> /\ lastReturn'[1].from = "submit") =>
       IF ~lastReturn'[1].ok
       THEN /\ files' = files
            /\ fmSaveResult' # <<>>
            /\ ~fmSaveResult'[1].success
            /\ fmSaveResult'[1].message # ""
            /\ fmShowModal' = fmShowModal
            /\ fmFormData' = fmFormData
            /\ editingFile' = editingFile
            /\ autoCloseTimers' = autoCloseTimers
            /\ ~fmIsSaving'
       ELSE IF lastReturn'[1].op = "add"
       THEN /\ Len(files') = Len(files) + 1
            /\ Tail(files') = files
            /\ files'[1] = filesTable'[Len(filesTable')]
            /\ \A i \in DOMAIN filesTable : filesTable[i].id # files'[1].id
            /\ \A i \in DOMAIN files : files[i].id # files'[1].id
       ELSE /\ Len(files') = Len(files)
            /\ \A i \in DOMAIN files :
                 IF files[i].id = lastReturn'[1].id
                 THEN \E j \in DOMAIN filesTable' :
                        /\ filesTable'[j].id = files[i].id
                        /\ files'[i] = filesTable'[j]
                 ELSE files'[i] = files[i]]_vars

\* the update of a file next to another one has just failed: the modal is
\* open with the form as entered and the failure is shown
C19_Witness ==
  /\ lastReturn # <<>>
  /\ lastReturn[1].from = "submit"
  /\ lastReturn[1].op = "update"
  /\ ~lastReturn[1].ok
  /\ fmShowModal
  /\ editingFile # <<>>
  /\ fmFormData.name = "B"
  /\ fmSaveResult = Failure("Failed to update file")
  /\ Len(files) = 2
  /\ ~fmIsSaving

----------------------------------------------------------------------------
(* Claim C20 *)

\* C20: when the pin of a file has been toggled twice, the second click
\* before the first answer, and both updates have succeeded, is_pinned of
\* the file is its value before the first click, in table files and in the
\* list of the component.
C20_DoubleToggleRestores ==
  [][(/\ pinEpisode # <<>>
      /\ pinEpisode' = <<>>
      /\ pinEpisode[1].clicks = 2
      /\ ~pinEpisode[1].failed
      /\ lastReturn' # <<>>
      /\ lastReturn'[1].ok) =>
       /\ \A i \in DOMAIN filesTable' :
            filesTable'[i].id = pinEpisode[1].id =>
              filesTable'[i].is_pinned = pinEpisode[1].original
       /\ \A i \in DOMAIN files' :
            files'[i].id = pinEpisode[1].id =>
              files'[i].is_pinned = pinEpisode[1].original]_vars

----------------------------------------------------------------------------
(* Claim C13 *)

\* C13: for a current user who is not superadmin the Category Management
\* view is never shown, the callback just called is never onDeleteAccount
\* nor one of the category callbacks, and every call of onUpdateAccount is
\* for an account whose id is in currentUser.managed_accounts.
C13_UserActsOnManagedAccountsOnly ==
  (currentUser # <<>> /\ currentUser[1].role # "superadmin") =>
    /\ ~showCategoryManagement
    /\ lastCall # <<>> =>
         /\ lastCall[1].fn \in {"onAddAccount", "onUpdateAccount"}
         /\ lastCall[1].fn = "onUpdateAccount" =>
              \E i \in DOMAIN currentUser[1].managed_accounts :
                currentUser[1].managed_accounts[i] = lastCall[1].id

\* a user who manages one of two accounts has changed its payment in the row
C13_Witness ==
  /\ currentUser # <<>>
  /\ currentUser[1].role = "user"
  /\ Len(accounts) = 2
  /\ Len(currentUser[1].managed_accounts) = 1
  /\ lastCall # <<>>
  /\ lastCall[1].fn = "onUpdateAccount"
  /\ DOMAIN lastCall[1].updates = {"payment_data"}
  /\ \E i \in DOMAIN accounts :
       accounts[i].id = lastCall[1].id /\ accounts[i].payment_data = "sah"

----------------------------------------------------------------------------
(* Claims C14 and C17 *)

\* C14: when an addAccount call of a signed-in user who is not superadmin
\* returns a created account (every request of the call answered without an
\* error), the id of the account is in the stored managed_accounts of that
\* user, and no step takes an id out of the managed_accounts of a user,
\* overlapping addAccount calls included.
C14_AddAssignsAndKeeps ==
  /\ [][(/\ addReturn' # <<>>
         /\ addReturn'[1].data # <<>>
         /\ addReturn'[1].auth # <<>>
         /\ ~addReturn'[1].faulty
         /\ usersTable[addReturn'[1].auth[1]].role # "superadmin") =>
          \E i \in DOMAIN usersTable'[addReturn'[1].auth[1]].managed_accounts :
            usersTable'[addReturn'[1].auth[1]].managed_accounts[i] =
              addReturn'[1].data[1].id]_vars
  /\ [][\A u \in UserIds :
          \A i \in DOMAIN usersTable[u].managed_accounts :
            \E j \in DOMAIN usersTable'[u].managed_accounts :
              usersTable'[u].managed_accounts[j] =
                usersTable[u].managed_accounts[i]]_vars

\* C17: every id in the managed_accounts of a user is the id of a row of
\* table accounts.
C17_ManagedAccountsExist ==
  \A u \in UserIds :
    \A i \in DOMAIN usersTable[u].managed_accounts :
      \E j \in DOMAIN accountsTable :
        accountsTable[j].id = usersTable[u].managed_accounts[i]

----------------------------------------------------------------------------
(* Claim C15 *)

\* sum of the values of function f over the finite set S
RECURSIVE SumFn(_, _)
SumFn(f, S) ==
  IF S = {} THEN 0
  ELSE LET x == CHOOSE y \in S : TRUE
       IN f[x] + SumFn(f, S \ {x})

\* the sales of account a dated in the selected month and year
SalesInMonth(a) ==
  {k \in DOMAIN salesData :
     /\ salesData[k].account_id = accounts[a].id
     /\ getMonth(salesData[k].date) + 1 = selectedMonth
     /\ getFullYear(salesData[k].date) = selectedYear}

CommissionInMonth(a) ==
  SumFn([k \in SalesInMonth(a) |-> salesData[k].gross_commission],
        SalesInMonth(a))

RevenueInMonth(a) ==
  SumFn([k \in SalesInMonth(a) |-> salesData[k].total_purchases],
        SalesInMonth(a))

\* C15: with an active rule, the row of every user counts as qualifying
\* exactly the accounts of the user whose gross_commission of the selected
\* month and year sums to min_commission_threshold or more, total_accounts
\* counts all accounts of the user, qualifying_accounts <= total_accounts,
\* and total_revenue and total_commission are the sums over exactly the
\* qualifying accounts.
C15_OnlyQualifyingAccountsCount ==
  activeRule # <<>> =>
    \A overview \in {userAccountsOverview} :
      /\ {overview[r].user_id : r \in DOMAIN overview} =
           {users[i].id : i \in DOMAIN users}
      /\ \A r \in DOMAIN overview :
           \A mine \in {{a \in DOMAIN accounts :
                           accounts[a].user_id = overview[r].user_id}} :
           \A commission \in {[a \in mine |-> CommissionInMonth(a)]} :
           \A qualifying \in
               {{a \in mine :
                   commission[a] >= activeRule[1].min_commission_threshold}} :
             /\ overview[r].total_accounts = Cardinality(mine)
             /\ overview[r].qualifying_accounts = Cardinality(qualifying)
             /\ overview[r].qualifying_accounts <= overview[r].total_accounts
             /\ overview[r].total_commission = SumFn(commission, qualifying)
             /\ overview[r].total_revenue =
                  SumFn([a \in mine |-> RevenueInMonth(a)], qualifying)

\* a user with two accounts, one at the threshold and one below it: only
\* the first is counted
C15_Witness ==
  /\ page = "overview"
  /\ ~isLoading
  /\ activeRule # <<>>
  /\ activeRule[1].min_commission_threshold = 10
  /\ \E r \in DOMAIN userAccountsOverview :
       /\ userAccountsOverview[r].total_accounts = 2
       /\ userAccountsOverview[r].qualifying_accounts = 1
       /\ userAccountsOverview[r].total_commission = 10
       /\ userAccountsOverview[r].total_revenue = 100

----------------------------------------------------------------------------
(* Claim C16 *)

----------------------------------------------------------------------------
(* Claim C21 *)

\* C21: while a request started through a hook instance has not finished,
\* the loading flag of the instance is true; it is therefore false only
\* after the last of the requests running together has finished
C21_LoadingWhileInFlight ==
  hookRequests # EmptyBag => loading = TRUE

----------------------------------------------------------------------------
(* Claim C22 *)

\* C22: when updateIncentiveRule returns null, the stored fields of the rule
\* and its stored tiers are what they were when the call was made
C22_FailedUpdateChangesNothing ==
  (ruleReturn # <<>> /\ ruleReturn[1].failed) =>
    /\ rulesTable = ruleReturn[1].rulesBefore
    /\ TiersOfRule(tiersTable, ruleReturn[1].id)
         = TiersOfRule(ruleReturn[1].tiersBefore, ruleReturn[1].id)

----------------------------------------------------------------------------
(* Claim C23 *)

\* the id of the current user, null when there is none
CurrentUserId == IF currentUser = <<>> THEN NULL ELSE currentUser[1].id

\* a step of the shown modal that calls a callback of the parent: a submit
SubmitStep == amShowModal /\ lastCall' # <<>>

\* C23: a submit of the account modal calls onUpdateAccount with the id of
\* the account being edited, or onAddAccount when none is being edited; the
\* payload is the form with user_id set to the id of the current user (null
\* when there is none), whatever user_id the form held; after the step the
\* modal is closed, editingAccount is null and the form holds its defaults.
C23_SubmitAssignsCurrentUser ==
  [][SubmitStep =>
       /\ lastCall'[1].fn =
            IF editingAccount = <<>> THEN "onAddAccount"
            ELSE "onUpdateAccount"
       /\ editingAccount # <<>> => lastCall'[1].id = editingAccount[1].id
       /\ lastCall'[1].updates.user_id = CurrentUserId
       /\ \A field \in DOMAIN amFormData \ {"user_id"} :
            lastCall'[1].updates[field] = amFormData[field]
       /\ ~amShowModal'
       /\ editingAccount' = <<>>
       /\ amFormData' =
            [username |-> <<>>, email |-> <<>>, phone |-> <<>>,
             status |-> "active", payment_data |-> "belum diatur",
             category_id |-> "", user_id |-> CurrentUserId]]_vars

\* the user has submitted the edit of an account of another user, which the
\* parent has stored with the id of the current user
C23_Witness ==
  /\ lastCall # <<>>
  /\ lastCall[1].fn = "onUpdateAccount"
  /\ lastCall[1].id = "acc2"
  /\ DOMAIN lastCall[1].updates = DOMAIN amFormData
  /\ lastCall[1].updates.user_id = "u1"
  /\ AccountRow("acc2").user_id = "u2"
  /\ \E i \in DOMAIN accounts :
       accounts[i].id = "acc2" /\ accounts[i].user_id = "u1"
  /\ ~amShowModal
  /\ editingAccount = <<>>

----------------------------------------------------------------------------
(* Claim C24 *)

\* the part of the revenue between the threshold of tier i and the threshold
\* of the next tier, without upper end for the last tier
RevenueBetween(sortedTiers, i, revenue) ==
  LET from == sortedTiers[i].revenue_threshold
      to == IF i < Len(sortedTiers)
            THEN Min(revenue, sortedTiers[i + 1].revenue_threshold)
            ELSE revenue
  IN IF to > from THEN to - from ELSE 0

\* C24: for a revenue at or above the base threshold the marginal
\* calculateTieredIncentive charges at the rate of each tier no more than the
\* part of the revenue between the threshold of the tier and the threshold of
\* the next tier, the result is the sum of the charged parts at their rates,
\* the charged parts sum to at most the revenue, and the result for 'high' is
\* 1.2 times the result for 'standard' (results in thousandths).
C24_MarginalBands ==
  \A r \in DOMAIN incentiveRules : \A revenue \in Money :
    \A rule \in {incentiveRules[r]} :
      revenue >= rule.base_revenue_threshold =>
        \A sortedTiers \in {SortByThreshold(rule.tiers)} :
        \A charged \in {applicableRevenues(sortedTiers, 1, revenue, revenue)} :
          /\ \A i \in DOMAIN sortedTiers :
               charged[i] <= RevenueBetween(sortedTiers, i, revenue)
          /\ calculateTieredIncentiveMarginal(revenue, rule, "standard")
               = SumFn([i \in DOMAIN sortedTiers |->
                          charged[i] * sortedTiers[i].incentive_rate * 10],
                       DOMAIN sortedTiers)
          /\ SumFn(charged, DOMAIN charged) <= revenue
          /\ calculateTieredIncentiveMarginal(revenue, rule, "high") * 10
               = calculateTieredIncentiveMarginal(revenue, rule, "standard")
                   * 12

\* the parts of the claim that do not depend on the bands
C24_SumAndBonus ==
  \A r \in DOMAIN incentiveRules : \A revenue \in Money :
    \A rule \in {incentiveRules[r]} :
      revenue >= rule.base_revenue_threshold =>
        \A sortedTiers \in {SortByThreshold(rule.tiers)} :
        \A charged \in {applicableRevenues(sortedTiers, 1, revenue, revenue)} :
          /\ calculateTieredIncentiveMarginal(revenue, rule, "standard")
               = SumFn([i \in DOMAIN sortedTiers |->
                          charged[i] * sortedTiers[i].incentive_rate * 10],
                       DOMAIN sortedTiers)
          /\ SumFn(charged, DOMAIN charged) <= revenue
          /\ calculateTieredIncentiveMarginal(revenue, rule, "high") * 10
               = calculateTieredIncentiveMarginal(revenue, rule, "standard")
                   * 12

====
